---- MODULE Spec2Model ----
(***************************************************************************)
(* The ndArch codec of redmonster/datamgr/io.py: write_ndArch encodes      *)
(* (data, baselines, infodict) into a FITS primary HDU, read_ndArch        *)
(* decodes a file into (data, baselines, infodict).  Write_Redmonster of   *)
(* io.py and io2.py writes the per-fiber and per-plate result files.       *)
(* Merge_Redmonster of io2.py merges the per-fiber files of a plate         *)
(* (merge_fibers, merge_chi2) and lists the plates (merge_plates); these    *)
(* methods are modelled loop iteration by loop iteration.                  *)
(* Combine_Redmonster.combine_fibers of io.py is one action.  A zpick      *)
(* carries its header, which create_hdulist extends in place.              *)
(*                                                                         *)
(* Header values and baseline elements are tagged (Num / Str) as Python    *)
(* values are typed.  File names are sequences of one-character strings,   *)
(* header keys are strings built by concatenation as the code builds them. *)
(* A header is the ordered sequence of its cards.  Python indices are      *)
(* 0-based (ipar, j); sequences here are 1-based, hence the "+ 1".         *)
(***************************************************************************)
EXTENDS Integers, Sequences, FiniteSets, TLC

VARIABLES pc, input, disk, fname, wres, rres,
          before, mem, hduref, dataref, rres2,
          kin, kout,
          env, dirs, fs, rm, clock, calls, wout, ctor,
          mobj, mdir, mlist, mids, mrows, mit, merr,
          archives, threads, frames

\* the codec, the header keys of large archives, the result files
codecVars == <<input, disk, fname, wres, rres, before, mem, hduref, dataref, rres2>>
keyVars == <<kin, kout>>
resultVars == <<env, dirs, fs, rm, clock, calls, wout, ctor>>

\* a Merge_Redmonster object and the locals of its running method: the
\* directory it globs, the list it iterates, the fiber ids, the rows filled,
\* the position of the iteration, the error raised
mergeVars == <<mobj, mdir, mlist, mids, mrows, mit, merr>>
\* read_ndArch calls in progress: the archives on disk, the position and the
\* result of every call, the local variables of every call
callVars == <<archives, threads, frames>>

vars == <<pc, codecVars, keyVars, resultVars, mergeVars, callVars>>

\* Largest number of parameter axes (npars) and largest axis length explored.
MaxPar == 2
MaxLen == 2
\* Number of wavelength pixels of every array explored.
NWave == 2
\* Largest number of parameter axes and largest axis length for which the
\* names of the header keys are built.
MaxAxes == 10
MaxSize == 10000
\* Largest number of write calls on one Write_Redmonster object, and the last
\* second of the clock.
MaxCalls == 2
MaxClock == 1

-----------------------------------------------------------------------------
(* Python values *)

Num(x) == [t |-> "num", n |-> x, s |-> ""]
Str(x) == [t |-> "str", n |-> 0, s |-> x]

Digits == <<"0", "1", "2", "3", "4", "5", "6", "7", "8", "9">>

\* str(i) of a non-negative integer
RECURSIVE str(_)
str(i) == IF i < 10 THEN Digits[i + 1]
          ELSE str(i \div 10) \o Digits[(i % 10) + 1]

\* numpy.arange(size) + 1, the index default of one axis
IndexBaseline(size) == [k \in 1 .. size |-> Num(k)]

-----------------------------------------------------------------------------
(* The FITS header: an ordered sequence of cards *)

Card(k, v) == [key |-> k, value |-> v]

\* k in header
HasKey(header, k) == \E i \in 1 .. Len(header) : header[i].key = k

\* header[k]
Get(header, k) ==
    header[CHOOSE i \in 1 .. Len(header) : header[i].key = k].value

\* header.set(k, value=v): update the card in place, or append a new card
HeaderSet(header, k, v) ==
    IF HasKey(header, k)
    THEN [i \in 1 .. Len(header) |->
             IF header[i].key = k THEN Card(k, v) ELSE header[i]]
    ELSE Append(header, Card(k, v))

\* fits.PrimaryHDU(data).header: the structural cards; FITS numbers the axes
\* in the reverse of the numpy order, so NAXIS1 is the last (wavelength) axis.
PrimaryHDU(data) ==
    LET rank == Len(data.shape) IN
    <<Card("SIMPLE", Str("T")), Card("BITPIX", Num(-64)),
      Card("NAXIS", Num(rank))>>
    \o [i \in 1 .. rank |->
           Card("NAXIS" \o str(i), Num(data.shape[rank + 1 - i]))]
    \o <<Card("EXTEND", Str("T"))>>

-----------------------------------------------------------------------------
(* write_ndArch *)

Ok(h) == [error |-> "none", header |-> h]
Fail(e) == [error |-> e, header |-> <<>>]

\* infodict['par_axistype'][ipar].strip()
strip(s) == CASE s = " regular " -> "regular"
              [] OTHER -> s

\* the key list ['PV'+ax+'_'+str(j+1) for j in xrange(size)], and its PS / N twins
KeyBase(prefix, ax, size) ==
    [j1 \in 1 .. size |-> prefix \o ax \o "_" \o str(j1)]

\* for j in xrange(size): hdu.header.set(base[j], value=baseline[j]), from j on
RECURSIVE SetKeys(_, _, _, _)
SetKeys(h, base, baseline, j) ==
    IF j >= Len(base) THEN Ok(h)
    ELSE IF j >= Len(baseline) THEN Fail("IndexError")
    ELSE SetKeys(HeaderSet(h, base[j + 1], baseline[j + 1]), base, baseline, j + 1)

\* one of the explicit families (irregular, labeled, named) of axis ipar
WriteFamily(h, prefix, ax, ipar, data, baselines) ==
    LET base == KeyBase(prefix, ax, data.shape[ipar + 1]) IN
    IF Len(base) = 0 THEN Ok(h)
    ELSE IF ipar >= Len(baselines) THEN Fail("IndexError")
    ELSE SetKeys(h, base, baselines[ipar + 1], 0)

\* a mutation: a single sample is written with increment 0
WriteRegularLenient(h, ax, ipar, baselines) ==
    IF ipar >= Len(baselines) THEN Fail("IndexError")
    ELSE LET b == baselines[ipar + 1] IN
         IF Len(b) < 1 THEN Fail("IndexError")
         ELSE IF b[1].t # "num" THEN Fail("TypeError")
         ELSE Ok(HeaderSet(HeaderSet(HeaderSet(h,
                    "CRPIX" \o ax, Num(1)),
                    "CRVAL" \o ax, b[1]),
                    "CDELT" \o ax,
                    IF Len(b) < 2 THEN Num(0) ELSE Num(b[2].n - b[1].n)))

\* the 'regular' branch: CRPIX, CRVAL, CDELT from the first two samples
WriteRegular(h, ax, ipar, baselines) ==
    IF ipar >= Len(baselines) THEN Fail("IndexError")
    ELSE LET b == baselines[ipar + 1] IN
         IF Len(b) < 2 THEN Fail("IndexError")
         ELSE IF b[1].t # "num" \/ b[2].t # "num" THEN Fail("TypeError")
         ELSE Ok(HeaderSet(HeaderSet(HeaderSet(h,
                    "CRPIX" \o ax, Num(1)),
                    "CRVAL" \o ax, b[1]),
                    "CDELT" \o ax, Num(b[2].n - b[1].n)))

\* the if / elif chain on par_axistype[ipar] of one loop iteration
WriteBaseline(h, ax, ipar, data, baselines, infodict) ==
    IF ipar >= Len(infodict.par_axistype) THEN Fail("IndexError")
    ELSE LET kind == strip(infodict.par_axistype[ipar + 1]) IN
         CASE kind = "regular" -> WriteRegular(h, ax, ipar, baselines)
           [] kind = "irregular" -> WriteFamily(h, "PV", ax, ipar, data, baselines)
           [] kind = "labeled" -> WriteFamily(h, "PS", ax, ipar, data, baselines)
           [] kind = "named" -> WriteFamily(h, "N", ax, ipar, data, baselines)
           [] OTHER -> Ok(h)

\* CNAME{ax} / CUNIT{ax}, written when the optional list is in infodict
WriteOptional(h, key, field, ipar, infodict) ==
    IF field \in DOMAIN infodict
    THEN IF ipar >= Len(infodict[field]) THEN Fail("IndexError")
         ELSE Ok(HeaderSet(h, key, infodict[field][ipar + 1]))
    ELSE Ok(h)

\* a mutation: the parameter axes are numbered from 1
AxisOfUnshifted(npars, ipar) == str(npars - ipar)

\* Translate Python axis index integer to FITS axis index string
AxisOf(npars, ipar) == str(npars + 1 - ipar)

\* the body of the loop over the parameters, for one ipar
WriteAxis(h, ipar, data, baselines, infodict) ==
    LET npars == Len(data.shape) - 1
        ax == AxisOf(npars, ipar)
        r1 == WriteOptional(h, "CNAME" \o ax, "par_names", ipar, infodict)
        r2 == IF r1.error # "none" THEN r1
              ELSE WriteOptional(r1.header, "CUNIT" \o ax, "par_units", ipar, infodict)
    IN IF r2.error # "none" THEN r2
       ELSE WriteBaseline(r2.header, ax, ipar, data, baselines, infodict)

\* a mutation: the loop runs over range(npars) in ascending order
RECURSIVE WriteAxesAscending(_, _, _, _, _)
WriteAxesAscending(h, ipar, data, baselines, infodict) ==
    IF ipar < 0 THEN Ok(h)
    ELSE LET r == WriteAxis(h, Len(data.shape) - 2 - ipar, data, baselines,
                            infodict) IN
         IF r.error # "none" THEN r
         ELSE WriteAxesAscending(r.header, ipar - 1, data, baselines, infodict)

\* for ipar in range(npars)[::-1], from ipar downwards
RECURSIVE WriteAxes(_, _, _, _, _)
WriteAxes(h, ipar, data, baselines, infodict) ==
    IF ipar < 0 THEN Ok(h)
    ELSE LET r == WriteAxis(h, ipar, data, baselines, infodict) IN
         IF r.error # "none" THEN r
         ELSE WriteAxes(r.header, ipar - 1, data, baselines, infodict)

\* a mutation: BUNIT is written only for a non-empty flux unit
WaveHeaderNonEmptyOnly(data, infodict) ==
    LET h0 == PrimaryHDU(data)
        h1 == IF "fluxunit" \in DOMAIN infodict /\ infodict.fluxunit # Str("")
              THEN HeaderSet(h0, "BUNIT", infodict.fluxunit) ELSE h0
    IN HeaderSet(HeaderSet(HeaderSet(HeaderSet(HeaderSet(h1,
           "CNAME1", Str("loglam")),
           "CUNIT1", Str("log10(Angstroms)")),
           "CRPIX1", Num(1)),
           "CRVAL1", infodict.coeff0),
           "CDELT1", infodict.coeff1)

\* the header before the loop: BUNIT and the wavelength axis
WaveHeader(data, infodict) ==
    LET h0 == PrimaryHDU(data)
        h1 == IF "fluxunit" \in DOMAIN infodict
              THEN HeaderSet(h0, "BUNIT", infodict.fluxunit) ELSE h0
    IN HeaderSet(HeaderSet(HeaderSet(HeaderSet(HeaderSet(h1,
           "CNAME1", Str("loglam")),
           "CUNIT1", Str("log10(Angstroms)")),
           "CRPIX1", Num(1)),
           "CRVAL1", infodict.coeff0),
           "CDELT1", infodict.coeff1)

\* write_ndArch(data, baselines, infodict): the error raised, or the file that
\* hdu.writeto(infodict['filename'], clobber=True) leaves on disk
write_ndArch(data, baselines, infodict) ==
    LET r == WriteAxes(WaveHeader(data, infodict), Len(data.shape) - 2,
                       data, baselines, infodict)
    IN IF r.error # "none" THEN [error |-> r.error, file |-> <<>>]
       ELSE [error |-> "none",
             file |-> <<[name |-> infodict.filename,
                         header |-> r.header, data |-> data]>>]

\* a mutation: an existing file is never replaced
writetoKeep(dsk, file, clobber) ==
    IF dsk # <<>> /\ dsk[1].name = file.name
    THEN [error |-> "IOError", disk |-> dsk]
    ELSE [error |-> "none", disk |-> <<file>>]

\* hdu.writeto(name, clobber=...): an existing file of that name is replaced
\* when clobber is set, and makes the call fail otherwise
writeto(dsk, file, clobber) ==
    IF dsk # <<>> /\ dsk[1].name = file.name /\ ~clobber
    THEN [error |-> "IOError", disk |-> dsk]
    ELSE [error |-> "none", disk |-> <<file>>]

\* a mutation: the HDU is written as soon as it is created, and once more at
\* the end
WriteCallEager(dsk, data, baselines, infodict) ==
    LET early == writeto(dsk, [name |-> infodict.filename,
                               header |-> WaveHeader(data, infodict),
                               data |-> data], TRUE)
        r == write_ndArch(data, baselines, infodict)
    IN IF r.error = "none" THEN writeto(early.disk, r.file[1], TRUE)
       ELSE [error |-> r.error, disk |-> early.disk]

\* a call of write_ndArch on the disk dsk: the header is built first and
\* hdu.writeto is the last statement, reached only when nothing was raised
WriteCall(dsk, data, baselines, infodict) ==
    LET r == write_ndArch(data, baselines, infodict)
    IN IF r.error = "none" THEN writeto(dsk, r.file[1], TRUE)
       ELSE [error |-> r.error, disk |-> dsk]

-----------------------------------------------------------------------------
(* read_ndArch *)

DotFits == <<".", "f", "i", "t", "s">>

SetMax(S) == CHOOSE m \in S : \A x \in S : x <= m
SetMin(S) == CHOOSE m \in S : \A x \in S : m <= x

\* s.rfind(sub): the highest 0-based index where sub occurs in s, or -1
rfind(s, sub) ==
    LET hits == {i \in 0 .. Len(s) :
                    /\ i + Len(sub) <= Len(s)
                    /\ \A k \in 1 .. Len(sub) : s[i + k] = sub[k]}
    IN IF hits = {} THEN -1 ELSE SetMax(hits)

\* s[:stop] with Python's treatment of a negative or too large stop
SliceTo(s, stop) ==
    LET end == IF stop < 0 THEN (IF Len(s) + stop < 0 THEN 0 ELSE Len(s) + stop)
               ELSE (IF stop > Len(s) THEN Len(s) ELSE stop)
    IN SubSeq(s, 1, end)

\* s.split(sep) for a one-character separator
RECURSIVE split(_, _)
split(s, sep) ==
    LET idx == {i \in 1 .. Len(s) : s[i] = sep} IN
    IF idx = {} THEN <<s>>
    ELSE LET i == SetMin(idx) IN
         <<SubSeq(s, 1, i - 1)>> \o split(SubSeq(s, i + 1, Len(s)), sep)

\* a mutation: the slice keeps one character too many
RootOfOffByOne(name) == SliceTo(name, rfind(name, DotFits) + 1)

\* fn_ROOT = fname[:fname.rfind('.fits')]
RootOf(name) == SliceTo(name, rfind(name, DotFits))

\* fname.split('/')[-1]
BaseName(name) == LET p == split(name, "/") IN p[Len(p)]

\* a mutation: the wavelength axis is counted as a parameter
NParsRank(data) == Len(data.shape)

\* npars = len(data.shape) - 1
NPars(data) == Len(data.shape) - 1

\* a mutation: only the first key of the family is tested
FamilyTestFirst(header, base) == Len(base) > 0 /\ HasKey(header, base[1])

\* n.asarray([k in header for k in base]).prod() > 0
FamilyTest(header, base) == \A j \in 1 .. Len(base) : HasKey(header, base[j])

Raise(e) == [error |-> e, value |-> <<>>]

\* what header[k] leaves in a list when k is absent: the KeyError it raises
KeyErrorRaised == [t |-> "KeyError", n |-> 0, s |-> ""]

\* n.asarray([header[k] for k in base])
FamilyValues(header, base) ==
    [j \in 1 .. Len(base) |->
        IF HasKey(header, base[j]) THEN Get(header, base[j]) ELSE KeyErrorRaised]

\* a mutation: the pixels are counted from 0
RegularBaselineZeroBased(size, crpix, cdelt, crval) ==
    [k1 \in 1 .. size |-> Num(((k1 - 1) - crpix.n) * cdelt.n + crval.n)]

\* (n.arange(size) + 1 - CRPIX) * CDELT + CRVAL
RegularBaseline(size, crpix, cdelt, crval) ==
    [k1 \in 1 .. size |-> Num(((k1 - 1) + 1 - crpix.n) * cdelt.n + crval.n)]

\* is_regular
RegularTest(header, ax) ==
    /\ HasKey(header, "CRPIX" \o ax)
    /\ HasKey(header, "CRVAL" \o ax)
    /\ HasKey(header, "CDELT" \o ax)

\* a mutation: the named test comes before the labeled test
AxisTypeNamedFirst(is_regular, is_irregular, is_labeled, is_named) ==
    IF is_regular THEN "regular"
    ELSE IF is_irregular THEN "irregular"
    ELSE IF is_named THEN "named"
    ELSE IF is_labeled THEN "labeled"
    ELSE "index"

\* the if / elif chain that picks the axis type; 'index' is the initial value
AxisType(is_regular, is_irregular, is_labeled, is_named) ==
    IF is_regular THEN "regular"
    ELSE IF is_irregular THEN "irregular"
    ELSE IF is_labeled THEN "labeled"
    ELSE IF is_named THEN "named"
    ELSE "index"

\* one iteration of the loop over the parameters: name, unit, type, baseline
DecodeAxis(header, data, ipar) ==
    LET ax == AxisOf(NPars(data), ipar)
        size == data.shape[ipar + 1]
        pv_base == KeyBase("PV", ax, size)
        ps_base == KeyBase("PS", ax, size)
        n_base == KeyBase("N", ax, size)
        kind == AxisType(RegularTest(header, ax), FamilyTest(header, pv_base),
                         FamilyTest(header, ps_base), FamilyTest(header, n_base))
    IN [name |-> IF HasKey(header, "CNAME" \o ax)
                 THEN Get(header, "CNAME" \o ax) ELSE Str(""),
        unit |-> IF HasKey(header, "CUNIT" \o ax)
                 THEN Get(header, "CUNIT" \o ax) ELSE Str(""),
        axistype |-> kind,
        baseline |->
            CASE kind = "regular" ->
                   RegularBaseline(size, Get(header, "CRPIX" \o ax),
                                   Get(header, "CDELT" \o ax),
                                   Get(header, "CRVAL" \o ax))
              [] kind = "irregular" -> FamilyValues(header, pv_base)
              [] kind = "labeled" -> FamilyValues(header, ps_base)
              [] kind = "named" -> FamilyValues(header, n_base)
              [] OTHER -> IndexBaseline(size)]

\* the tuple built once the wavelength grid (coeff0, coeff1) is known
Returned(name, toks, header, data, coeff0, coeff1) ==
    LET npars == NPars(data)
        axes == [i1 \in 1 .. npars |-> DecodeAxis(header, data, i1 - 1)]
    IN IF \E i1 \in 1 .. npars : \E j1 \in 1 .. Len(axes[i1].baseline) :
             axes[i1].baseline[j1] = KeyErrorRaised
       THEN Raise("KeyError")
       ELSE
       [error |-> "none",
        value |-> <<[data |-> data,
                     baselines |-> [i1 \in 1 .. npars |-> axes[i1].baseline],
                     infodict |->
                       [filename |-> BaseName(name),
                        class |-> toks[Len(toks) - 1],
                        version |-> toks[Len(toks)],
                        coeff0 |-> coeff0,
                        coeff1 |-> coeff1,
                        nwave |-> Get(header, "NAXIS1"),
                        fluxunit |-> IF HasKey(header, "BUNIT")
                                     THEN Get(header, "BUNIT") ELSE Str(""),
                        par_names |-> [i1 \in 1 .. npars |-> axes[i1].name],
                        par_units |-> [i1 \in 1 .. npars |-> axes[i1].unit],
                        par_axistype |->
                            [i1 \in 1 .. npars |-> axes[i1].axistype]]]>>]

\* a mutation: missing CRVAL1 / CDELT1 default to 0 instead of raising
DecodeDefaulting(name, toks, header, data) ==
    Returned(name, toks, header, data,
             IF HasKey(header, "CRVAL1") THEN Get(header, "CRVAL1") ELSE Num(0),
             IF HasKey(header, "CDELT1") THEN Get(header, "CDELT1") ELSE Num(0))

\* the part of read_ndArch after the data and the header are in hand:
\* header['CRVAL1'] and header['CDELT1'] raise KeyError when absent
Decode(name, toks, header, data) ==
    IF ~HasKey(header, "CRVAL1") \/ ~HasKey(header, "CDELT1")
    THEN Raise("KeyError")
    ELSE Returned(name, toks, header, data,
                  Get(header, "CRVAL1"), Get(header, "CDELT1"))

\* a mutation: a missing class token is padded with '' instead of raising
read_ndArchPadded(name, dsk) ==
    LET toks == <<<<>>>> \o split(SliceTo(name, rfind(name, DotFits)), "-") IN
    IF dsk = <<>> \/ dsk[1].name # name THEN Raise("IOError")
    ELSE Decode(name, toks, dsk[1].header, dsk[1].data)

\* read_ndArch(fname) against the file system dsk: the error raised, or the
\* returned tuple.  fn_CLASS = fn_ROOT.split('-')[-2] raises IndexError first.
read_ndArch(name, dsk) ==
    LET toks == split(RootOf(name), "-") IN
    IF Len(toks) < 2 THEN Raise("IndexError")
    ELSE IF dsk = <<>> \/ dsk[1].name # name THEN Raise("IOError")
    ELSE Decode(name, toks, dsk[1].header, dsk[1].data)

\* fits.getdata(fname): the array of the HDU, in a buffer of its own
getdata(m, file) == [mem |-> Append(m, file.data.flat), ref |-> Len(m) + 1]

\* a mutation: the array is handed out as a view of the buffer it comes from
copyView(m, ref) == [mem |-> m, ref |-> ref]

\* .copy(): a new buffer with the same contents
copy(m, ref) == [mem |-> Append(m, m[ref]), ref |-> Len(m) + 1]

\* data = fits.getdata(fname).copy(): the buffers after a read that returns
Buffers(m, file) ==
    LET g == getdata(m, file)
        c == copy(g.mem, g.ref)
    IN [mem |-> c.mem, hduref |-> g.ref, dataref |-> c.ref]

-----------------------------------------------------------------------------
(* Write_Redmonster of io.py and io2.py: the result files *)

\* os.path.join(a, b)
join(a, b) == a \o "/" \o b

\* '%03d' % i and '%02d' % i
Pad3(i) == IF i < 10 THEN "00" \o str(i)
           ELSE IF i < 100 THEN "0" \o str(i) ELSE str(i)
Pad2(i) == IF i < 10 THEN "0" \o str(i) ELSE str(i)

\* strftime("%Y-%m-%d_%H:%M:%S", gmtime()), t seconds after 2014-08-01 00:00:00
strftime(t) == "2014-08-01_00:00:" \o Pad2(t)

\* 'redmonster-%s-%s-%03d.fits' % (plate, mjd, fiberid[0])
FiberName(zpick) ==
    "redmonster-" \o str(zpick.plate) \o "-" \o str(zpick.mjd) \o "-"
    \o Pad3(zpick.fiberid[1]) \o ".fits"

\* 'redmonster-%s-%s.fits' % (plate, mjd)
PlateName(zpick) ==
    "redmonster-" \o str(zpick.plate) \o "-" \o str(zpick.mjd) \o ".fits"

\* 'redmonster-%s-%s-%s.fits' % (plate, mjd, strftime(...))
PlateStampName(zpick, t) ==
    "redmonster-" \o str(zpick.plate) \o "-" \o str(zpick.mjd) \o "-"
    \o strftime(t) \o ".fits"

\* the path of a file name under self.dest (None: the working directory)
Under(dest, name) == IF dest = <<>> THEN name ELSE join(dest[1], name)

\* os.path.exists(path) for a file
exists(files, path) == path \in DOMAIN files

\* the directories makedirs cannot create
Unwritable == {"ro/new", "ro/v5/7/v5"}

\* if exists(path): self.dest = path; else: try makedirs(path) except: None
ResolveDest(path, ds) ==
    IF path \in ds THEN [dest |-> <<path>>, dirs |-> ds]
    ELSE IF path \in Unwritable THEN [dest |-> <<>>, dirs |-> ds]
    ELSE [dest |-> <<path>>, dirs |-> ds \cup {path}]

\* the default of the clobber argument of __init__: False in io.py, True in io2.py
DefaultClobber(module) == module = "io2"

NoWriter ==
    [module |-> "none", clobber |-> FALSE, dest |-> <<>>, given |-> "none",
     zpick |-> [plate |-> 0, mjd |-> 0, fiberid |-> <<0>>, hdr |-> <<>>]]

\* Write_Redmonster(zpick, dest, clobber): the object built, the directories
\* after the call, or the error raised.  An absent argument is <<>> for dest
\* and "default" for clobber; an unset environment variable is <<>>.
Write_Redmonster(module, zpick, destArg, clobberArg, environ, ds) ==
    LET clobber == IF clobberArg = "default" THEN DefaultClobber(module)
                   ELSE clobberArg = "True"
        obj(dest) == [module |-> module, clobber |-> clobber, dest |-> dest,
                      given |-> clobberArg, zpick |-> zpick]
        built(r) == [error |-> "none", obj |-> obj(r.dest), dirs |-> r.dirs]
    IN IF destArg # <<>> THEN built(ResolveDest(destArg[1], ds))
       ELSE IF \/ environ.REDMONSTER_SPECTRO_REDUX = <<>>
               \/ environ.RUN2D = <<>>
               \/ environ.RUN1D = <<>>
       THEN [error |-> "KeyError", obj |-> NoWriter, dirs |-> ds]
       ELSE LET bsr == environ.REDMONSTER_SPECTRO_REDUX[1]
                run2d == environ.RUN2D[1]
                run1d == environ.RUN1D[1]
            IN IF bsr # "" /\ run2d # "" /\ run1d # ""
               THEN built(ResolveDest(
                        join(join(join(bsr, run2d), str(zpick.plate)), run1d), ds))
               ELSE built([dest |-> <<>>, dirs |-> ds])

\* hdr.extend([('VERS_RM', ...), ('DATE_RM', strftime(..., gmtime()), ...),
\* ...]): the header after the call.  A header is the sequence of the DATE_RM
\* values of the groups of cards appended to it, the first one first; extend
\* appends to what is there and replaces nothing.
extend(hdr, t) == Append(hdr, strftime(t))

\* create_hdulist: hdr = self.zpick.hdr is the header of the caller's zpick,
\* and hdr.extend changes it in place, so the cards stay on zpick.hdr and
\* every further call appends them again.  thdulist is what the HDU list
\* holds (serial tells the lists of different calls apart), obj the object
\* with the zpick it shares.
create_hdulist(obj, t, serial) ==
    LET hdr == extend(obj.zpick.hdr, t) IN
    [thdulist |-> [plate |-> obj.zpick.plate, mjd |-> obj.zpick.mjd,
                   fiberid |-> obj.zpick.fiberid, hdr |-> hdr,
                   serial |-> serial],
     obj |-> [obj EXCEPT !.zpick.hdr = hdr]]

\* self.thdulist.writeto(path, clobber=...) on the files of the file system
HDUListWriteto(files, path, hdulist, clobber) ==
    IF exists(files, path) /\ ~clobber
    THEN [error |-> "IOError", fs |-> files]
    ELSE [error |-> "none",
          fs |-> [q \in DOMAIN files \cup {path} |->
                     IF q = path THEN hdulist ELSE files[q]]]

\* the outcome of a write method: the error raised, the files, the object
Outcome(error, files, obj) == [error |-> error, fs |-> files, obj |-> obj]

\* the body shared by write_fiberid and write_fiber.  With clobber and no
\* dest the print after writeto formats three fields with two values; without
\* clobber the name with the time stamp passes a string to %03d.
WriteFiberBody(obj, files, t, serial) ==
    LET target == Under(obj.dest, FiberName(obj.zpick))
        c == create_hdulist(obj, t, serial)
    IN IF obj.clobber
       THEN LET w == HDUListWriteto(files, target, c.thdulist, TRUE) IN
            Outcome(IF obj.dest = <<>> THEN "TypeError" ELSE "none", w.fs, c.obj)
       ELSE IF exists(files, target)
       THEN Outcome("TypeError", files, c.obj)
       ELSE LET w == HDUListWriteto(files, target, c.thdulist, FALSE) IN
            Outcome(w.error, w.fs, c.obj)

\* io.py: Write_Redmonster.write_fiberid
write_fiberid(obj, files, t, serial) == WriteFiberBody(obj, files, t, serial)

\* io2.py: Write_Redmonster.write_fiber, which starts with self.clobber = True
write_fiber(obj, files, t, serial) ==
    WriteFiberBody([obj EXCEPT !.clobber = TRUE], files, t, serial)

\* Write_Redmonster.write_plate, the same in io.py and io2.py.  gmtime() is
\* read at t in create_hdulist and again, at t2 >= t, for the name with the
\* time stamp.
write_plate(obj, files, t, t2, serial) ==
    LET target == Under(obj.dest, PlateName(obj.zpick))
        stamped == Under(obj.dest, PlateStampName(obj.zpick, t2))
        c == create_hdulist(obj, t, serial)
        w == IF obj.clobber THEN HDUListWriteto(files, target, c.thdulist, TRUE)
             ELSE IF exists(files, target)
             THEN HDUListWriteto(files, stamped, c.thdulist, FALSE)
             ELSE HDUListWriteto(files, target, c.thdulist, FALSE)
    IN Outcome(w.error, w.fs, c.obj)

\* no call of Write_Redmonster(...) has been made
NoCall == [module |-> "none", dest |-> <<>>, clobber |-> "none"]

\* no Write_Redmonster object, no result file
NoResults ==
    /\ env = [REDMONSTER_SPECTRO_REDUX |-> <<>>, RUN2D |-> <<>>, RUN1D |-> <<>>]
    /\ dirs = {}
    /\ fs = <<>>
    /\ rm = NoWriter
    /\ clock = 0
    /\ calls = 0
    /\ wout = [method |-> "none", error |-> "none"]
    /\ ctor = NoCall

\* no header key is being built
NoKeys ==
    /\ kin = <<>>
    /\ kout = <<>>

\* no Merge_Redmonster object
NoMerge ==
    /\ mobj = <<>>
    /\ mdir = <<>>
    /\ mlist = <<>>
    /\ mids = <<>>
    /\ mrows = <<>>
    /\ mit = 0
    /\ merr = "none"

\* no read_ndArch call in progress
NoCalls ==
    /\ archives = <<>>
    /\ threads = <<>>
    /\ frames = <<>>

-----------------------------------------------------------------------------
(* The inputs explored *)

Kinds == {"regular", "irregular", "labeled", "named", "index"}

\* par_axistype entries a caller may pass: the five kinds, a padded one, a wrong one
KindInputs == Kinds \cup {" regular ", "bogus"}

\* the kinds the axes other than the explored one are written with
BackgroundKinds == {"regular", "named"}

\* "nd-S-v1.fits"
ArchName == <<"n", "d", "-", "S", "-", "v", "1", ".", "f", "i", "t", "s">>

RECURSIVE Product(_)
Product(shape) == IF shape = <<>> THEN 1 ELSE Head(shape) * Product(Tail(shape))

\* an array of the given shape, its cells numbered in storage order
ArrayOf(shape) == [shape |-> shape, flat |-> [c \in 1 .. Product(shape) |-> c]]

\* a baseline of m samples in the style of a kind, distinct for each axis ipar
BaselineOf(style, m, ipar) ==
    [j1 \in 1 .. m |->
        CASE style = "regular" -> Num(3 + 10 * ipar + 2 * (j1 - 1))
          [] style = "irregular" -> Num(4 + 10 * ipar + j1 * j1)
          [] style = "labeled" -> Str("T" \o str(ipar) \o str(j1))
          [] style = "named" -> Str("obj" \o str(ipar) \o str(j1))
          [] OTHER -> Num(j1)]

\* length of the axes other than the one under study, by their kind
OtherLen(kind) == IF kind \in {"regular", "named"} THEN 2 ELSE 1

\* the optional keys of infodict, in three variants
Optional(variant, npars) ==
    LET names == [i1 \in 1 .. npars |-> Str("par" \o str(i1 - 1))]
        units == [i1 \in 1 .. npars |-> Str("u" \o str(i1 - 1))]
    IN CASE variant = 1 -> <<>>
         [] variant = 2 -> [fluxunit |-> Str(""), par_names |-> names]
         [] OTHER -> [fluxunit |-> Str("Jy"), par_names |-> names,
                      par_units |-> units]

\* the arguments of one write_ndArch call: axis f (1-based) has length lf, the
\* par_axistype entry kf and a baseline of m samples in style sf; the other
\* axes are valid axes of kind bg; nb baselines are passed.
WriteInput(npars, f, lf, kf, sf, m, bg, nb, variant) ==
    LET len(i1) == IF i1 = f THEN lf ELSE OtherLen(bg)
        shape == [i1 \in 1 .. npars + 1 |->
                     IF i1 = npars + 1 THEN NWave ELSE len(i1)]
    IN [data |-> ArrayOf(shape),
        baselines |-> [i1 \in 1 .. nb |->
                          IF i1 = f THEN BaselineOf(sf, m, i1 - 1)
                          ELSE IF i1 <= npars THEN BaselineOf(bg, len(i1), i1 - 1)
                          ELSE BaselineOf("index", 1, i1 - 1)],
        infodict |-> [filename |-> ArchName, coeff0 |-> Num(35),
                      coeff1 |-> Num(1),
                      par_axistype |-> [i1 \in 1 .. npars |->
                                           IF i1 = f THEN kf ELSE bg]]
                     @@ Optional(variant, npars)]

\* input is one of the argument tuples explored: no parameter axis, or an
\* axis under study among valid ones, with a baseline of the wrong length or
\* a wrong number of baselines
InputChosen ==
    \/ \E nb \in 0 .. 1, v \in 1 .. 3 :
          input = WriteInput(0, 0, 0, "index", "index", 0, "index", nb, v)
    \/ \E p \in 1 .. MaxPar, lf \in 0 .. MaxLen :
       \E f \in 1 .. p, kf \in KindInputs, sf \in Kinds,
          m \in {x \in {lf - 1, lf, lf + 1} : x >= 0},
          bg \in (IF p = 1 THEN {"index"} ELSE BackgroundKinds), v \in 1 .. 3 :
       \E nb \in (IF m = lf THEN {p - 1, p, p + 1} ELSE {p}) :
          input = WriteInput(p, f, lf, kf, sf, m, bg, nb, v)

NoInput == [data |-> ArrayOf(<<>>), baselines |-> <<>>, infodict |-> <<>>]
NoResult == [error |-> "none", value |-> <<>>]

-----------------------------------------------------------------------------
(* Encoding then decoding one archive *)

\* an archive of an earlier run under the name that is written
OldArchive ==
    [name |-> ArchName,
     header |-> PrimaryHDU([shape |-> <<1>>, flat |-> <<99>>])
                \o <<Card("CRVAL1", Num(30)), Card("CDELT1", Num(1))>>,
     data |-> [shape |-> <<1>>, flat |-> <<99>>]]

\* nothing is in memory: no buffer, no array held by the caller
NoMemory ==
    /\ mem = <<>>
    /\ hduref = 0
    /\ dataref = 0
    /\ rres2 = NoResult

Init ==
    /\ pc = "start"
    /\ InputChosen
    /\ disk \in {<<>>, <<OldArchive>>}
    /\ before = disk
    /\ fname = ArchName
    /\ wres = "none"
    /\ rres = NoResult
    /\ NoMemory
    /\ NoKeys
    /\ NoResults
    /\ NoMerge
    /\ NoCalls

\* a call write_ndArch(data, baselines, infodict)
WriteStep ==
    /\ pc = "start"
    /\ LET w == WriteCall(disk, input.data, input.baselines, input.infodict)
       IN /\ wres' = (IF w.error = "none" THEN "ok" ELSE w.error)
          /\ disk' = w.disk
          /\ pc' = (IF w.error = "none" THEN "written" ELSE "failed")
    /\ UNCHANGED <<input, fname, rres, before, mem, hduref, dataref, rres2>>
    /\ UNCHANGED <<keyVars, resultVars, mergeVars, callVars>>

\* a call read_ndArch(fname); the caller keeps the returned array
ReadStep ==
    /\ pc = "written"
    /\ rres' = read_ndArch(fname, disk)
    /\ IF rres'.error = "none"
       THEN LET b == Buffers(mem, disk[1]) IN
            /\ mem' = b.mem
            /\ hduref' = b.hduref
            /\ dataref' = b.dataref
       ELSE UNCHANGED <<mem, hduref, dataref>>
    /\ pc' = "done"
    /\ UNCHANGED <<input, disk, fname, wres, before, rres2>>
    /\ UNCHANGED <<keyVars, resultVars, mergeVars, callVars>>

\* the caller assigns to a cell (the first or the last) of the returned array
MutateStep ==
    /\ pc = "done"
    /\ rres.error = "none"
    /\ Len(mem[dataref]) > 0
    /\ \E c \in {1, Len(mem[dataref])} :
          mem' = [mem EXCEPT ![dataref][c] = -1]
    /\ pc' = "mutated"
    /\ UNCHANGED <<input, disk, fname, wres, rres, before, hduref, dataref, rres2>>
    /\ UNCHANGED <<keyVars, resultVars, mergeVars, callVars>>

\* a second call read_ndArch(fname) of the same file
RereadStep ==
    /\ pc = "mutated"
    /\ rres2' = read_ndArch(fname, disk)
    /\ IF rres2'.error = "none"
       THEN mem' = Buffers(mem, disk[1]).mem
       ELSE UNCHANGED mem
    /\ pc' = "reread"
    /\ UNCHANGED <<input, disk, fname, wres, rres, before, hduref, dataref>>
    /\ UNCHANGED <<keyVars, resultVars, mergeVars, callVars>>

Next == WriteStep \/ ReadStep \/ MutateStep \/ RereadStep

Spec == Init /\ [][Next]_vars

-----------------------------------------------------------------------------
(* Decoding a file written by any tool: headers with any subset of the keys *)

\* (CRPIX, CRVAL, CDELT) of a regular axis, in three variants
RegularCards(ax, variant) ==
    LET p == CASE variant = 1 -> 1 [] variant = 2 -> 2 [] OTHER -> 0
        v0 == CASE variant = 1 -> 3 [] variant = 2 -> -1 [] OTHER -> 7
        d == CASE variant = 1 -> 2 [] variant = 2 -> 5 [] OTHER -> -3
    IN <<Card("CRPIX" \o ax, Num(p)), Card("CRVAL" \o ax, Num(v0)),
         Card("CDELT" \o ax, Num(d))>>

\* the cards of one explicit family of an axis, with the values of BaselineOf
FamilyCards(prefix, style, ax, size, ipar) ==
    LET base == KeyBase(prefix, ax, size)
        b == BaselineOf(style, size, ipar)
    IN [j1 \in 1 .. size |-> Card(base[j1], b[j1])]

\* every axis-specific card an axis can carry
AllAxisCards(ax, size, ipar, variant) ==
    RegularCards(ax, variant)
    \o FamilyCards("PV", "irregular", ax, size, ipar)
    \o FamilyCards("PS", "labeled", ax, size, ipar)
    \o FamilyCards("N", "named", ax, size, ipar)

\* the cards a writer emits for an axis of the given kind
KindCards(kind, ax, size, ipar, variant) ==
    CASE kind = "regular" -> RegularCards(ax, variant)
      [] kind = "irregular" -> FamilyCards("PV", "irregular", ax, size, ipar)
      [] kind = "labeled" -> FamilyCards("PS", "labeled", ax, size, ipar)
      [] kind = "named" -> FamilyCards("N", "named", ax, size, ipar)
      [] OTHER -> <<>>

\* the subsequence of cards at the positions in keep
RECURSIVE Pick(_, _, _)
Pick(cards, keep, i) ==
    IF i > Len(cards) THEN <<>>
    ELSE (IF i \in keep THEN <<cards[i]>> ELSE <<>>) \o Pick(cards, keep, i + 1)

\* CNAME / CUNIT of an axis: both, none, or the name only
NameCards(ax, ipar, variant) ==
    CASE variant = 1 -> <<Card("CNAME" \o ax, Str("par" \o str(ipar))),
                          Card("CUNIT" \o ax, Str("u" \o str(ipar)))>>
      [] variant = 2 -> <<>>
      [] OTHER -> <<Card("CNAME" \o ax, Str("par" \o str(ipar)))>>

RECURSIVE Flatten(_)
Flatten(ss) == IF ss = <<>> THEN <<>> ELSE Head(ss) \o Flatten(Tail(ss))

\* a file whose axis f (1-based) has length lf and carries the cards at the
\* positions keep of AllAxisCards; the other axes carry the cards of kind bg;
\* wave tells which of CRVAL1, CDELT1 are present
ForeignFile(name, npars, f, lf, keep, bg, variant, wave) ==
    LET len(i1) == IF i1 = f THEN lf ELSE OtherLen(bg)
        shape == [i1 \in 1 .. npars + 1 |->
                     IF i1 = npars + 1 THEN NWave ELSE len(i1)]
        data == ArrayOf(shape)
        axcards(i1) ==
            LET ax == AxisOf(npars, i1 - 1) IN
            NameCards(ax, i1 - 1, variant)
            \o (IF i1 = f
                THEN Pick(AllAxisCards(ax, lf, i1 - 1, variant), keep, 1)
                ELSE KindCards(bg, ax, len(i1), i1 - 1, variant))
    IN [name |-> name,
        header |-> PrimaryHDU(data)
                   \o (IF "CRVAL1" \in wave THEN <<Card("CRVAL1", Num(35))>> ELSE <<>>)
                   \o (IF "CDELT1" \in wave THEN <<Card("CDELT1", Num(1))>> ELSE <<>>)
                   \o (IF variant = 1 THEN <<Card("BUNIT", Str("Jy"))>> ELSE <<>>)
                   \o Flatten([i1 \in 1 .. npars |-> axcards(i1)]),
        data |-> data]

WaveKeys == {"CRVAL1", "CDELT1"}

\* disk holds one of the files explored
FileChosen ==
    \/ \E v \in 1 .. 3 :
          disk = <<ForeignFile(ArchName, 0, 0, 0, {}, "index", v, WaveKeys)>>
    \/ \E p \in 1 .. MaxPar, lf \in 0 .. MaxLen :
       \E f \in 1 .. p, keep \in SUBSET (1 .. (3 + 3 * lf)),
          bg \in (IF p = 1 THEN {"index"} ELSE BackgroundKinds) :
       \E v \in (IF {1, 2, 3} \subseteq keep THEN 1 .. 3 ELSE {1}) :
          disk = <<ForeignFile(ArchName, p, f, lf, keep, bg, v, WaveKeys)>>

InitDecode ==
    /\ pc = "written"
    /\ input = NoInput
    /\ FileChosen
    /\ before = disk
    /\ fname = ArchName
    /\ wres = "none"
    /\ rres = NoResult
    /\ NoMemory
    /\ NoKeys
    /\ NoResults
    /\ NoMerge
    /\ NoCalls

SpecDecode == InitDecode /\ [][ReadStep]_vars

-----------------------------------------------------------------------------
(* Decoding under any file name *)

Prefixes == {<<"n", "d">>, <<"d", "/", "n", "d">>, <<"a", "-", "b">>}
Classes == {<<"S">>, <<"G", "A">>}
Versions == {<<"v", "1">>, <<"2">>}
Exts == {DotFits, <<".", "e", "x", "t">>, <<".", "f", "i", "t">>,
         <<".", "e", "-", "t">>}
Stems == {<<"b", "a", "d">>, <<>>, <<"d", "/", "b", "a", "d">>,
          <<"a", "-", "b", "/", "b", "a", "d">>}

\* fname is <prefix>-<CLASS>-<VERSION><ext>, <CLASS>-<VERSION><ext> or <stem><ext>
NameChosen ==
    \/ \E pre \in Prefixes, c \in Classes, v \in Versions, e \in Exts :
          fname = pre \o <<"-">> \o c \o <<"-">> \o v \o e
    \/ \E c \in Classes, v \in Versions, e \in Exts :
          fname = c \o <<"-">> \o v \o e
    \/ \E st \in Stems, e \in Exts : fname = st \o e

\* the file named fname is absent, or holds an archive of no or one parameter
\* axis with any subset of CRVAL1, CDELT1
NamedFileChosen ==
    \/ disk = <<>>
    \/ \E p \in 0 .. 1, wave \in SUBSET WaveKeys :
          disk = <<ForeignFile(fname, p, p, 2, {4, 5}, "index", 1, wave)>>

InitName ==
    /\ pc = "written"
    /\ input = NoInput
    /\ NameChosen
    /\ NamedFileChosen
    /\ before = disk
    /\ wres = "none"
    /\ rres = NoResult
    /\ NoMemory
    /\ NoKeys
    /\ NoResults
    /\ NoMerge
    /\ NoCalls

SpecName == InitName /\ [][ReadStep]_vars

-----------------------------------------------------------------------------
(* The names of the header keys of large archives *)

\* the codec is not in use
NoCodec ==
    /\ input = NoInput
    /\ disk = <<>>
    /\ before = <<>>
    /\ fname = ArchName
    /\ wres = "none"
    /\ rres = NoResult
    /\ NoMemory

IndexedPrefixes == {"PV", "PS", "N"}
PlainPrefixes == {"CNAME", "CUNIT", "CRPIX", "CRVAL", "CDELT"}

\* the numbers of parameter axes and the axis lengths for which keys are built
AxesExplored == {x \in {1, 2, MaxAxes - 1, MaxAxes} : x >= 1}
SizesExplored == {x \in {1, 9, 10, 999, 1000, MaxSize - 1, MaxSize} : x >= 1}

\* one key the loop over the parameters writes for axis ipar of npars: a plain
\* key, or the key of pixel j (0-based) of an axis of the given size
KeyRequests(npars) ==
    {[prefix |-> pf, ipar |-> ip, size |-> 0, j |-> 0] :
        pf \in PlainPrefixes, ip \in {0, npars - 1}}
    \cup UNION {{[prefix |-> pf, ipar |-> ip, size |-> sz, j |-> jj] :
                   pf \in IndexedPrefixes, ip \in {0, npars - 1}, jj \in {0, sz - 1}} :
                sz \in SizesExplored}

\* the key as write_ndArch builds it
KeyOf(req, npars) ==
    LET ax == AxisOf(npars, req.ipar) IN
    IF req.prefix \in IndexedPrefixes
    THEN KeyBase(req.prefix, ax, req.size)[req.j + 1]
    ELSE req.prefix \o ax

\* two keys of one archive; an axis has one size
KeysChosen ==
    \E npars \in AxesExplored :
    \E a \in KeyRequests(npars), b \in KeyRequests(npars) :
       /\ (a.ipar = b.ipar /\ a.size # 0 /\ b.size # 0) => a.size = b.size
       /\ kin = <<[npars |-> npars, a |-> a, b |-> b]>>

InitKeys ==
    /\ pc = "keys"
    /\ KeysChosen
    /\ kout = <<>>
    /\ NoCodec
    /\ NoResults
    /\ NoMerge
    /\ NoCalls

\* the names of the two keys are built
KeyStep ==
    /\ pc = "keys"
    /\ kout' = <<KeyOf(kin[1].a, kin[1].npars), KeyOf(kin[1].b, kin[1].npars)>>
    /\ pc' = "keyed"
    /\ UNCHANGED <<codecVars, kin, resultVars, mergeVars, callVars>>

SpecKeys == InitKeys /\ [][KeyStep]_vars

-----------------------------------------------------------------------------
(* Writing result files *)

\* the zpick handed to Write_Redmonster, its header without cards of
\* Write_Redmonster yet
Zpick == [plate |-> 7, mjd |-> 5, fiberid |-> <<3>>, hdr |-> <<>>]

\* a result file of an earlier run
OldResult ==
    [plate |-> 7, mjd |-> 5, fiberid |-> <<3>>,
     hdr |-> <<"2014-07-31_23:59:59">>, serial |-> 0]

\* the directories that exist at the start, besides the working directory
DirsAtStart == {"out", "redux/v5/7/v5"}

FullEnv(bsr) ==
    [REDMONSTER_SPECTRO_REDUX |-> <<bsr>>, RUN2D |-> <<"v5">>, RUN1D |-> <<"v5">>]

\* the environments explored: all three variables set, one of them unset or
\* empty, none of them set
EnvChoices ==
    {FullEnv("redux"), FullEnv("ro"), FullEnv("fresh")}
    \cup {[FullEnv("redux") EXCEPT ![k] = x] :
             k \in {"REDMONSTER_SPECTRO_REDUX", "RUN2D", "RUN1D"},
             x \in {<<>>, <<"">>}}
    \cup {[REDMONSTER_SPECTRO_REDUX |-> <<>>, RUN2D |-> <<>>, RUN1D |-> <<>>]}

\* the files of earlier runs: the per-fiber file, the plate file, both or
\* none, in the working directory and in every directory that exists
OldFiles(kinds) ==
    LET names == {FiberName(Zpick) : k \in kinds \cap {"fiber"}}
                 \cup {PlateName(Zpick) : k \in kinds \cap {"plate"}}
        paths == names \cup {join(d, nm) : d \in DirsAtStart, nm \in names}
    IN [q \in paths |-> OldResult]

DestArgs == {<<>>, <<"out">>, <<"new">>, <<"ro/new">>}
ClobberArgs == {"default", "True", "False"}

InitResults ==
    /\ pc = "new"
    /\ env \in EnvChoices
    /\ dirs = DirsAtStart
    /\ \E kinds \in SUBSET {"fiber", "plate"} : fs = OldFiles(kinds)
    /\ rm = NoWriter
    /\ clock = 0
    /\ calls = 0
    /\ wout = [method |-> "none", error |-> "none"]
    /\ ctor = NoCall
    /\ NoCodec
    /\ NoKeys
    /\ NoMerge
    /\ NoCalls

\* Write_Redmonster(zpick, dest=..., clobber=...) of io.py or of io2.py
Construct ==
    /\ pc = "new"
    /\ \E module \in {"io", "io2"}, destArg \in DestArgs, clobberArg \in ClobberArgs :
          LET r == Write_Redmonster(module, Zpick, destArg, clobberArg, env, dirs) IN
          /\ rm' = r.obj
          /\ dirs' = r.dirs
          /\ wout' = [method |-> "__init__", error |-> r.error]
          /\ ctor' = [module |-> module, dest |-> destArg, clobber |-> clobberArg]
          /\ pc' = (IF r.error = "none" THEN "ready" ELSE "unbuilt")
    /\ UNCHANGED <<codecVars, keyVars, env, fs, clock, calls, mergeVars, callVars>>

\* the outcome r of a write method becomes the state; t2 is the clock when
\* the method returns or raises
Finish(method, r, t2) ==
    /\ fs' = r.fs
    /\ rm' = r.obj
    /\ wout' = [method |-> method, error |-> r.error]
    /\ calls' = calls + 1
    /\ clock' = t2
    /\ UNCHANGED <<pc, codecVars, keyVars, env, dirs, ctor>>
    /\ UNCHANGED <<mergeVars, callVars>>

\* a call of write_fiberid (io.py) or write_fiber (io2.py)
WriteFiber ==
    /\ pc = "ready"
    /\ calls < MaxCalls
    /\ Finish("write_fiber",
              IF rm.module = "io" THEN write_fiberid(rm, fs, clock, calls + 1)
              ELSE write_fiber(rm, fs, clock, calls + 1),
              clock)

\* a call of write_plate: the clock may go on between the gmtime() of
\* create_hdulist and the gmtime() of the name with the time stamp
WritePlate ==
    /\ pc = "ready"
    /\ calls < MaxCalls
    /\ \E t2 \in clock .. MaxClock :
          Finish("write_plate", write_plate(rm, fs, clock, t2, calls + 1), t2)

\* a second passes
Tick ==
    /\ pc = "ready"
    /\ clock < MaxClock
    /\ clock' = clock + 1
    /\ UNCHANGED <<pc, codecVars, keyVars, env, dirs, fs, rm, calls, wout, ctor>>
    /\ UNCHANGED <<mergeVars, callVars>>

NextResults == Construct \/ WriteFiber \/ WritePlate \/ Tick

SpecResults == InitResults /\ [][NextResults]_vars

-----------------------------------------------------------------------------
(* Python strings and lists in the merge methods of io2.py *)

Upper ==
    <<"A", "B", "C", "D", "E", "F", "G", "H", "I", "J", "K", "L", "M",
      "N", "O", "P", "Q", "R", "S", "T", "U", "V", "W", "X", "Y", "Z">>
Lower ==
    <<"a", "b", "c", "d", "e", "f", "g", "h", "i", "j", "k", "l", "m",
      "n", "o", "p", "q", "r", "s", "t", "u", "v", "w", "x", "y", "z">>

\* the index of c in the sequence row
IndexIn(row, c) == CHOOSE i \in 1 .. Len(row) : row[i] = c

\* ord(c), the ASCII code of the characters that file names are made of
ord(c) ==
    CASE c = " " -> 32
      [] c = "+" -> 43
      [] c = "-" -> 45
      [] c = "." -> 46
      [] c = "/" -> 47
      [] c \in {Digits[i] : i \in 1 .. 10} -> 47 + IndexIn(Digits, c)
      [] c = ":" -> 58
      [] c \in {Upper[i] : i \in 1 .. 26} -> 64 + IndexIn(Upper, c)
      [] c = "_" -> 95
      [] c \in {Lower[i] : i \in 1 .. 26} -> 96 + IndexIn(Lower, c)

\* a < b for two strings: the first character that differs decides, a proper
\* prefix comes first
StrLess(a, b) ==
    \E k \in 1 .. Len(a) + 1 :
       /\ k <= Len(b)
       /\ \A j \in 1 .. k - 1 : a[j] = b[j]
       /\ (k = Len(a) + 1 \/ ord(a[k]) < ord(b[k]))

\* a < b for two Python values of the given type, "int" or "str"
PyLess(a, b, type) == IF type = "int" THEN a < b ELSE StrLess(a, b)

\* list.sort() of a list of values of the given type: ascending, equal
\* elements in their earlier order
sort(s, type) ==
    LET len == Len(s)
        first(j, i) == \/ PyLess(s[j], s[i], type)
                       \/ (~PyLess(s[i], s[j], type) /\ j < i)
        pos(i) == 1 + Cardinality({j \in 1 .. len : j # i /\ first(j, i)})
    IN [q \in 1 .. len |-> s[CHOOSE i \in 1 .. len : pos(i) = q]]

\* iglob(pattern): the sequences iglob may yield for the set S of the paths
\* that match.  The order is the one of os.listdir, which the names do not
\* determine: every order is possible.
iglob(S) ==
    {order \in [1 .. Cardinality(S) -> S] :
        \A i, j \in 1 .. Cardinality(S) : order[i] = order[j] => i = j}

\* list.remove(x): the list without the first element equal to x
listremove(list, x) ==
    LET i == SetMin({k \in 1 .. Len(list) : list[k] = x})
    IN SubSeq(list, 1, i - 1) \o SubSeq(list, i + 1, Len(list))

\* s[-5:]
LastFive(s) == SubSeq(s, IF Len(s) > 5 THEN Len(s) - 4 ELSE 1, Len(s))

\* the characters of str(i) for a non-negative integer
RECURSIVE chars(_)
chars(i) == IF i < 10 THEN <<Digits[i + 1]>>
            ELSE chars(i \div 10) \o <<Digits[(i % 10) + 1]>>

\* an environment variable read in try / except: None when unset, and an
\* empty string is as false as None
Truthy(v) == v # <<>> /\ v # <<"">>

\* no Write_Redmonster call is made
NoWrites ==
    /\ dirs = {}
    /\ fs = <<>>
    /\ rm = NoWriter
    /\ clock = 0
    /\ calls = 0
    /\ wout = [method |-> "none", error |-> "none"]
    /\ ctor = NoCall

-----------------------------------------------------------------------------
(* Merge_Redmonster.merge_plates: the list of the plates *)

\* Largest number of entries of the directory $REDMONSTER_SPECTRO_REDUX/$RUN2D.
MaxEntries == 4

\* the entries explored: plate directories, files ending in '.fits', a log
PlateDirEntries ==
    {chars(3586), chars(7000), chars(10000),
     <<"a">> \o DotFits, <<"b">> \o DotFits,
     <<"s", "p", "A", "l", "l">> \o DotFits, <<"l", "o", "g">>}

\* the environments explored by the merge methods
MergeEnvChoices ==
    {FullEnv("redux"),
     [FullEnv("redux") EXCEPT !.RUN2D = <<>>],
     [FullEnv("redux") EXCEPT !.RUN1D = <<"">>]}

InitPlates ==
    /\ pc = "plates"
    /\ env \in MergeEnvChoices
    /\ mobj = <<>>
    /\ \E S \in SUBSET PlateDirEntries :
          /\ Cardinality(S) <= MaxEntries
          /\ mdir = [name \in S |-> [kind |-> "entry"]]
    /\ mlist = <<>>
    /\ mids = <<>>
    /\ mrows = <<>>
    /\ mit = 0
    /\ merr = "none"
    /\ NoWrites
    /\ NoCodec
    /\ NoKeys
    /\ NoCalls

\* lines 270-281: platedir, the basenames of its entries, sorted; without
\* platedir the list stays empty
PlatesGlob ==
    /\ pc = "plates"
    /\ IF Truthy(env.REDMONSTER_SPECTRO_REDUX) /\ Truthy(env.RUN2D)
       THEN \E paths \in iglob(DOMAIN mdir) : mlist' = sort(paths, "str")
       ELSE mlist' = <<>>
    /\ mit' = 0
    /\ pc' = "filter"
    /\ UNCHANGED <<mobj, mdir, mids, mrows, merr>>
    /\ UNCHANGED <<codecVars, keyVars, resultVars, callVars>>

\* one iteration of 'for listitem in self.plates': the iterator hands out
\* the element at its position and moves on, the body removes it from the
\* list that is being iterated
PlatesFilterStep ==
    /\ pc = "filter"
    /\ mit < Len(mlist)
    /\ LET listitem == mlist[mit + 1] IN
          mlist' = (IF LastFive(listitem) = DotFits THEN listremove(mlist, listitem)
                    ELSE mlist)
    /\ mit' = mit + 1
    /\ UNCHANGED <<pc, mobj, mdir, mids, mrows, merr>>
    /\ UNCHANGED <<codecVars, keyVars, resultVars, callVars>>

\* the iterator is exhausted; self.fiberid = self.plates
PlatesFilterEnd ==
    /\ pc = "filter"
    /\ mit >= Len(mlist)
    /\ mids' = mlist
    /\ pc' = "filtered"
    /\ UNCHANGED <<mobj, mdir, mlist, mrows, mit, merr>>
    /\ UNCHANGED <<codecVars, keyVars, resultVars, callVars>>

\* the rest of merge_plates: no plate file is in the directories explored, so
\* self.z1 was never assigned and line 317 raises AttributeError
PlatesRest ==
    /\ pc = "filtered"
    /\ merr' = "AttributeError"
    /\ pc' = "raised"
    /\ UNCHANGED <<mobj, mdir, mlist, mids, mrows, mit>>
    /\ UNCHANGED <<codecVars, keyVars, resultVars, callVars>>

NextPlates == PlatesGlob \/ PlatesFilterStep \/ PlatesFilterEnd \/ PlatesRest

SpecPlates == InitPlates /\ [][NextPlates]_vars

-----------------------------------------------------------------------------
(* Merge_Redmonster.merge_chi2 *)

\* Largest number of per-fiber files in the directory of a plate.
MaxFiles == 3

\* join(topdir, run2d, plate, run1d) and the separator, written "d/"
MergeDir == <<"d", "/">>

IsDigit(c) == c \in {Digits[i] : i \in 1 .. 10}

\* the value of a string of digits
RECURSIVE DigitsValue(_)
DigitsValue(ds) ==
    IF ds = <<>> THEN 0
    ELSE 10 * DigitsValue(SubSeq(ds, 1, Len(ds) - 1))
         + (IndexIn(Digits, ds[Len(ds)]) - 1)

\* int(s) for a string without blanks: an optional sign, then digits; <<>>
\* stands for the ValueError raised on anything else
int(s) ==
    LET signed == s # <<>> /\ s[1] \in {"+", "-"}
        body == IF signed THEN Tail(s) ELSE s
    IN IF body = <<>> \/ \E j \in 1 .. Len(body) : ~IsDigit(body[j]) THEN <<>>
       ELSE <<(IF signed /\ s[1] = "-" THEN -1 ELSE 1) * DigitsValue(body)>>

StartsWith(s, pre) == Len(s) >= Len(pre) /\ SubSeq(s, 1, Len(pre)) = pre
EndsWith(s, suf) ==
    Len(s) >= Len(suf) /\ SubSeq(s, Len(s) - Len(suf) + 1, Len(s)) = suf

\* fnmatch of a name against pre + '*' + suf
GlobMatch(name, pre, suf) ==
    /\ Len(name) >= Len(pre) + Len(suf)
    /\ StartsWith(name, pre)
    /\ EndsWith(name, suf)

\* 'chi2arr-%s-%s-%s' % (self.temp, self.plate, self.mjd)
Chi2Stem(obj) ==
    <<"c", "h", "i", "2", "a", "r", "r", "-">> \o obj.temp \o <<"-">>
    \o obj.plate \o <<"-">> \o obj.mjd

\* the name of the merged file, 'chi2arr-%s-%s-%s.fits'
Chi2Merged(obj) == Chi2Stem(obj) \o DotFits

\* re.search('chi2arr-%s-%s-%s-(\d+).fits', name).group(1) for a name that
\* starts with the stem: the longest run of digits that is followed by any
\* one character and 'fits'; <<>> when there is no match (m is None)
Chi2Group(obj, name) ==
    LET pre == Chi2Stem(obj) \o <<"-">>
        tail == SubSeq(name, Len(pre) + 1, Len(name))
        ks == {k \in 1 .. Len(tail) :
                  /\ \A j \in 1 .. k : IsDigit(tail[j])
                  /\ k + 5 <= Len(tail)
                  /\ SubSeq(tail, k + 2, k + 5) = <<"f", "i", "t", "s">>}
    IN IF ~StartsWith(name, pre) \/ ks = {} THEN <<>>
       ELSE SubSeq(tail, 1, SetMax(ks))

\* os.remove(path)
remove(files, name) == [q \in DOMAIN files \ {name} |-> files[q]]

\* the per-fiber file of a fiber: its array is told apart by the name of the
\* file it was written to; a file that is not ok cannot be opened
Chi2File(name, ok) == [kind |-> "chi2", origin |-> name, ok |-> ok]

\* a row of n.zeros
ZeroRow == [kind |-> "zeros", origin |-> <<>>, ok |-> TRUE]

\* the merged file: the FIBERID column and the rows of the primary array
MergedFile(fiberid, rows) == [kind |-> "merged", fiberid |-> fiberid, rows |-> rows]

\* the text after the last '-' of the names explored: fiber numbers of one,
\* two and three digits, and a name that is not a number
Chi2Tails == {chars(2), chars(10), chars(11), chars(100), <<"x", "1">>}

Chi2Name(obj, tail) == Chi2Stem(obj) \o <<"-">> \o tail \o DotFits

Chi2Object == [temp |-> <<"s", "s", "p">>, plate |-> chars(7000), mjd |-> chars(55000)]

InitChi2 ==
    /\ pc = "chi2"
    /\ env \in MergeEnvChoices
    /\ mobj = Chi2Object
    /\ \E T \in SUBSET Chi2Tails, old \in BOOLEAN :
          /\ Cardinality(T) <= MaxFiles
          /\ \E bad \in SUBSET T :
                /\ Cardinality(bad) <= 1
                /\ mdir = [name \in {Chi2Name(mobj, t) : t \in T}
                                    \cup {Chi2Merged(mobj) : x \in {old} \cap {TRUE}} |->
                             IF name = Chi2Merged(mobj) THEN MergedFile(<<>>, <<>>)
                             ELSE Chi2File(name, \A t \in bad : name # Chi2Name(mobj, t))]
    /\ mlist = <<>>
    /\ mids = <<>>
    /\ mrows = <<>>
    /\ mit = 0
    /\ merr = "none"
    /\ NoWrites
    /\ NoCodec
    /\ NoKeys
    /\ NoCalls

\* lines 548-565: the glob, the fiber number of every match, the two sorts.
\* m.group(1) on a name the pattern does not match raises AttributeError.
Chi2Glob ==
    /\ pc = "chi2"
    /\ IF ~(Truthy(env.REDMONSTER_SPECTRO_REDUX) /\ Truthy(env.RUN2D)
            /\ Truthy(env.RUN1D))
       THEN /\ pc' = "returned"
            /\ UNCHANGED <<mlist, mids, merr>>
       ELSE \E names \in iglob({nm \in DOMAIN mdir :
                                   GlobMatch(nm, Chi2Stem(mobj) \o <<"-">>, DotFits)}) :
            LET paths == [i \in 1 .. Len(names) |-> MergeDir \o names[i]]
                groups == [i \in 1 .. Len(paths) |->
                              Chi2Group(mobj, BaseName(paths[i]))]
            IN IF \E i \in 1 .. Len(groups) : groups[i] = <<>>
               THEN /\ merr' = "AttributeError"
                    /\ pc' = "raised"
                    /\ UNCHANGED <<mlist, mids>>
               ELSE /\ mids' = sort([i \in 1 .. Len(groups) |-> int(groups[i])[1]],
                                    "int")
                    /\ mlist' = sort(paths, "str")
                    /\ pc' = "loop"
                    /\ UNCHANGED merr
    /\ UNCHANGED <<mobj, mdir, mrows, mit>>
    /\ UNCHANGED <<codecVars, keyVars, resultVars, callVars>>

\* lines 567-576, one iteration: the array of the file is put in row i (the
\* first iteration allocates the rows) and the file is removed
Chi2Step ==
    /\ pc = "loop"
    /\ mit < Len(mlist)
    /\ LET path == mlist[mit + 1]
           chi2arr == mdir[BaseName(path)]
           chi2arrs == IF mrows = <<>> THEN [i \in 1 .. Len(mids) |-> ZeroRow]
                       ELSE mrows
       IN IF ~chi2arr.ok
          THEN /\ merr' = "IOError"
               /\ pc' = "raised"
               /\ UNCHANGED <<mdir, mrows, mit>>
          ELSE /\ mrows' = [chi2arrs EXCEPT ![mit + 1] = chi2arr]
               /\ mdir' = remove(mdir, BaseName(path))
               /\ mit' = mit + 1
               /\ UNCHANGED <<pc, merr>>
    /\ UNCHANGED <<mobj, mlist, mids>>
    /\ UNCHANGED <<codecVars, keyVars, resultVars, callVars>>

\* lines 578-583: the merged file is written with clobber=True; chi2arrs is
\* unbound when the loop had nothing to iterate
Chi2Write ==
    /\ pc = "loop"
    /\ mit >= Len(mlist)
    /\ IF mrows = <<>>
       THEN /\ merr' = "NameError"
            /\ pc' = "raised"
            /\ UNCHANGED mdir
       ELSE /\ mdir' = [q \in DOMAIN mdir \cup {Chi2Merged(mobj)} |->
                           IF q = Chi2Merged(mobj) THEN MergedFile(mids, mrows)
                           ELSE mdir[q]]
            /\ pc' = "merged"
            /\ UNCHANGED merr
    /\ UNCHANGED <<mobj, mlist, mids, mrows, mit>>
    /\ UNCHANGED <<codecVars, keyVars, resultVars, callVars>>

NextChi2 == Chi2Glob \/ Chi2Step \/ Chi2Write

SpecChi2 == InitChi2 /\ [][NextChi2]_vars

-----------------------------------------------------------------------------
(* Merge_Redmonster.merge_fibers *)

\* the characters of '%03d' % i
pad3(i) == IF i < 10 THEN <<"0", "0">> \o chars(i)
           ELSE IF i < 100 THEN <<"0">> \o chars(i) ELSE chars(i)

\* 'redmonster-%s-%s' % (self.plate, self.mjd)
FiberStem(obj) ==
    <<"r", "e", "d", "m", "o", "n", "s", "t", "e", "r", "-">> \o obj.plate
    \o <<"-">> \o obj.mjd

\* the name write_fiber gives the file of a fiber,
\* 'redmonster-%s-%s-%03d.fits', and names with another text in its place
FiberFileName(obj, tail) == FiberStem(obj) \o <<"-">> \o tail \o DotFits

\* s[22:25]
Slice22to25(s) == SubSeq(s, 23, IF Len(s) < 25 THEN Len(s) ELSE 25)

\* int(fiberfile[22:25]), <<>> for the ValueError
FiberOf(fiberfile) == int(Slice22to25(fiberfile))

\* the spPlate file of the plate, under $BOSS_SPECTRO_REDUX
SpPlatePath(obj) ==
    <<"b", "/", "s", "p", "P", "l", "a", "t", "e", "-">> \o obj.plate
    \o <<"-">> \o obj.mjd \o DotFits

\* a per-fiber result file: its Z, CLASS, ZWARNING and model values are told
\* apart by the name of the file they were written to
FiberFile(name) == [kind |-> "fiber", origin |-> name, ok |-> TRUE]

\* the plates explored, of four and of five digits
PlatesExplored == {chars(7000), chars(10000)}

\* the texts explored after the last '-': the fibers 3, 12, 100 and 1000 as
\* '%03d' writes them, and a name that carries no number
FiberTails == {pad3(3), pad3(12), pad3(100), pad3(1000), <<"o", "l", "d">>}

\* the environment e with BOSS_SPECTRO_REDUX set to b, or unset
WithBoss(e, b) ==
    [k \in DOMAIN e \cup {"BOSS_SPECTRO_REDUX"} |->
        IF k = "BOSS_SPECTRO_REDUX" THEN b ELSE e[k]]

\* the plate directory holds the per-fiber files; without any of them it may
\* exist or not
InitFibers ==
    /\ pc = "fibers"
    /\ \E e \in MergeEnvChoices, b \in {<<"b">>, <<>>} : env = WithBoss(e, b)
    /\ \E plate \in PlatesExplored : mobj = [plate |-> plate, mjd |-> chars(55000)]
    /\ \E T \in SUBSET FiberTails, sp \in BOOLEAN :
          /\ Cardinality(T) <= MaxFiles
          /\ mdir = [name \in {FiberFileName(mobj, t) : t \in T}
                              \cup {SpPlatePath(mobj) : x \in {sp} \cap {TRUE}} |->
                        IF name = SpPlatePath(mobj) THEN [kind |-> "spPlate"]
                        ELSE FiberFile(name)]
          /\ dirs \in {{MergeDir}} \cup {{} : x \in {T} \cap {{}}}
    /\ mlist = <<>>
    /\ mids = <<>>
    /\ mrows = <<>>
    /\ mit = 0
    /\ merr = "none"
    /\ fs = <<>>
    /\ rm = NoWriter
    /\ clock = 0
    /\ calls = 0
    /\ wout = [method |-> "none", error |-> "none"]
    /\ ctor = NoCall
    /\ NoCodec
    /\ NoKeys
    /\ NoCalls

\* lines 203-223: the glob loop appends every path to self.filepaths and then
\* int(fiberfile[22:25]) to self.fiberid; self.z is allocated; npix is read
\* from the spPlate file; the two sorts come last.  When the step raises,
\* the lists hold what was appended so far, in the order of the glob: after
\* the ValueError the paths up to the one that failed and the numbers before
\* it, after the KeyError or the IOError of line 220 all of them, unsorted.
FibersGlob ==
    /\ pc = "fibers"
    /\ IF ~(Truthy(env.REDMONSTER_SPECTRO_REDUX) /\ Truthy(env.RUN2D)
            /\ Truthy(env.RUN1D))
       THEN /\ pc' = "returned"
            /\ UNCHANGED <<mlist, mids, mrows, merr>>
       ELSE \E names \in iglob({nm \in DOMAIN mdir :
                                   GlobMatch(nm, FiberStem(mobj) \o <<"-">>, DotFits)}) :
            LET filepaths == [i \in 1 .. Len(names) |-> MergeDir \o names[i]]
                fiberid == [i \in 1 .. Len(filepaths) |->
                               FiberOf(BaseName(filepaths[i]))]
                bad == {i \in 1 .. Len(fiberid) : fiberid[i] = <<>>}
                ids(n) == [i \in 1 .. n |-> fiberid[i][1]]
                z == [i \in 1 .. Len(fiberid) |-> ZeroRow]
            IN IF bad # {}
               THEN LET k == CHOOSE i \in bad : \A j \in bad : i <= j IN
                    /\ merr' = "ValueError"
                    /\ pc' = "raised"
                    /\ mlist' = SubSeq(filepaths, 1, k)
                    /\ mids' = ids(k - 1)
                    /\ UNCHANGED mrows
               ELSE IF env.BOSS_SPECTRO_REDUX = <<>>
                       \/ SpPlatePath(mobj) \notin DOMAIN mdir
               THEN /\ merr' = (IF env.BOSS_SPECTRO_REDUX = <<>> THEN "KeyError"
                                ELSE "IOError")
                    /\ pc' = "raised"
                    /\ mlist' = filepaths
                    /\ mids' = ids(Len(fiberid))
                    /\ mrows' = z
               ELSE /\ mlist' = sort(filepaths, "str")
                    /\ mids' = sort(ids(Len(fiberid)), "int")
                    /\ mrows' = z
                    /\ pc' = "rows"
                    /\ UNCHANGED merr
    /\ UNCHANGED <<mobj, mdir, mit>>
    /\ UNCHANGED <<codecVars, keyVars, resultVars, callVars>>

\* lines 224-247, one iteration: the values of the file fill row i
FibersStep ==
    /\ pc = "rows"
    /\ mit < Len(mlist)
    /\ mrows' = [mrows EXCEPT ![mit + 1] = mdir[BaseName(mlist[mit + 1])]]
    /\ mit' = mit + 1
    /\ UNCHANGED <<pc, mobj, mdir, mlist, mids, merr>>
    /\ UNCHANGED <<codecVars, keyVars, resultVars, callVars>>

\* lines 249-250: Write_Redmonster(self, clobber=True).write_plate().  The
\* constructor (lines 46-58) takes the plate directory as dest and, when it
\* does not exist, calls makedirs, which creates it or fails.  create_hdulist
\* then builds the cards of line 65 in their order: len(self.zpick.z[0])
\* raises IndexError when no per-fiber file matched, and otherwise
\* self.zpick.threshold raises AttributeError, an attribute that a
\* Merge_Redmonster does not have.  Nothing is written.
FibersWrite ==
    /\ pc = "rows"
    /\ mit >= Len(mlist)
    /\ \E made \in BOOLEAN : dirs' = (IF made THEN dirs \cup {MergeDir} ELSE dirs)
    /\ merr' = (IF Len(mrows) = 0 THEN "IndexError" ELSE "AttributeError")
    /\ pc' = "raised"
    /\ UNCHANGED <<mobj, mdir, mlist, mids, mrows, mit>>
    /\ UNCHANGED <<codecVars, keyVars, callVars>>
    /\ UNCHANGED <<env, fs, rm, clock, calls, wout, ctor>>

\* io.py: Combine_Redmonster.combine_fibers (lines 355-404), a whole call;
\* it always raises.  The glob loop and the spPlate file are as in
\* merge_fibers, without the sorts.  With a file matched, the first iteration
\* fills the z of row 0 and then reads hdu[1].data.CLASS and .MINVEC, columns
\* which no per-fiber file holds both of (io.py writes MINVECTOR, io2.py
\* CLASS1): AttributeError.  Write_Redmonster(self) is built after the if,
\* also without fiberdir: environ[...] raises KeyError for a variable that
\* is unset, and with an empty one create_hdulist reads self.zpick.hdr, which
\* was never assigned.  With fiberdir and no file matched, the constructor
\* takes the plate directory, making it when it is not there, and
\* create_hdulist raises ValueError at max(map(len, classx)) of no class.
CombineFibers ==
    /\ pc = "fibers"
    /\ pc' = "combined"
    /\ IF ~(Truthy(env.REDMONSTER_SPECTRO_REDUX) /\ Truthy(env.RUN2D)
            /\ Truthy(env.RUN1D))
       THEN /\ merr' = (IF <<>> \in {env.REDMONSTER_SPECTRO_REDUX, env.RUN2D,
                                     env.RUN1D}
                        THEN "KeyError" ELSE "AttributeError")
            /\ UNCHANGED <<mlist, mids, mrows, dirs>>
       ELSE \E names \in iglob({nm \in DOMAIN mdir :
                                   GlobMatch(nm, FiberStem(mobj) \o <<"-">>, DotFits)}) :
            LET filepaths == [i \in 1 .. Len(names) |-> MergeDir \o names[i]]
                fiberid == [i \in 1 .. Len(filepaths) |->
                               FiberOf(BaseName(filepaths[i]))]
                bad == {i \in 1 .. Len(fiberid) : fiberid[i] = <<>>}
                ids(n) == [i \in 1 .. n |-> fiberid[i][1]]
                z == [i \in 1 .. Len(fiberid) |-> ZeroRow]
            IN IF bad # {}
               THEN LET k == CHOOSE i \in bad : \A j \in bad : i <= j IN
                    /\ merr' = "ValueError"
                    /\ mlist' = SubSeq(filepaths, 1, k)
                    /\ mids' = ids(k - 1)
                    /\ UNCHANGED <<mrows, dirs>>
               ELSE IF env.BOSS_SPECTRO_REDUX = <<>>
                       \/ SpPlatePath(mobj) \notin DOMAIN mdir
               THEN /\ merr' = (IF env.BOSS_SPECTRO_REDUX = <<>> THEN "KeyError"
                                ELSE "IOError")
                    /\ mlist' = filepaths
                    /\ mids' = ids(Len(fiberid))
                    /\ mrows' = z
                    /\ UNCHANGED dirs
               ELSE IF Len(filepaths) > 0
               THEN /\ merr' = "AttributeError"
                    /\ mlist' = filepaths
                    /\ mids' = ids(Len(fiberid))
                    /\ mrows' = [z EXCEPT ![1] = mdir[BaseName(filepaths[1])]]
                    /\ UNCHANGED dirs
               ELSE /\ merr' = "ValueError"
                    /\ mlist' = <<>>
                    /\ mids' = <<>>
                    /\ mrows' = <<>>
                    /\ \E made \in BOOLEAN :
                          dirs' = (IF made THEN dirs \cup {MergeDir} ELSE dirs)
    /\ UNCHANGED <<mobj, mdir, mit>>
    /\ UNCHANGED <<codecVars, keyVars, callVars>>
    /\ UNCHANGED <<env, fs, rm, clock, calls, wout, ctor>>

NextFibers == FibersGlob \/ FibersStep \/ FibersWrite \/ CombineFibers

SpecFibers == InitFibers /\ [][NextFibers]_vars

-----------------------------------------------------------------------------
(* Several read_ndArch calls in progress at once *)

\* Number of read_ndArch calls in progress at once.
NCalls == 2

\* "nd-GA-2.fits", "a-b.fits", "bad.fits", "d/nd-S-v1.fits", "x-y.fits"
NameGA == <<"n", "d", "-", "G", "A", "-", "2">> \o DotFits
NameAB == <<"a", "-", "b">> \o DotFits
NameBad == <<"b", "a", "d">> \o DotFits
NameInDir == <<"d", "/">> \o ArchName
NameAbsent == <<"x", "-", "y">> \o DotFits

\* the archives on disk: a regular axis; a labeled and a named axis; an
\* irregular axis without CDELT1; a name without class; no parameter axis
ArchivesOnDisk ==
    {ForeignFile(ArchName, 1, 1, 2, {1, 2, 3}, "index", 1, WaveKeys),
     ForeignFile(NameGA, 2, 1, 2, {6, 7}, "named", 3, WaveKeys),
     ForeignFile(NameAB, 1, 1, 2, {4, 5}, "index", 2, {"CRVAL1"}),
     ForeignFile(NameBad, 1, 1, 1, {}, "index", 1, WaveKeys),
     ForeignFile(NameInDir, 0, 0, 0, {}, "index", 3, WaveKeys)}

\* the file names a call may be given: the archives on disk and an absent file
CallNames == {f.name : f \in ArchivesOnDisk} \cup {NameAbsent}

\* the local variables of a call before any is assigned
NoFrame ==
    [fname |-> <<>>, fn_CLASS |-> <<>>, fn_VERSION |-> <<>>,
     data |-> ArrayOf(<<>>), header |-> <<>>, npars |-> 0,
     infodict |-> <<>>, baselines |-> <<>>, ipar |-> 0]

\* a mutation: the local variables of all the calls are one set of
\* module-level variables
SlotShared(t) == 1

\* where the local variables of call t live: every call has its own frame
Slot(t) == t

InitCalls ==
    /\ pc = "calls"
    /\ archives = [name \in {f.name : f \in ArchivesOnDisk} |->
                      CHOOSE f \in ArchivesOnDisk : f.name = name]
    /\ \E args \in [1 .. NCalls -> CallNames] :
          /\ \A t, u \in 1 .. NCalls : t # u => args[t] # args[u]
          /\ threads = [t \in 1 .. NCalls |->
                           [pc |-> "idle", arg |-> args[t], result |-> NoResult,
                            mixed |-> FALSE]]
    /\ frames = [k \in 1 .. NCalls |-> NoFrame]
    /\ NoCodec
    /\ NoKeys
    /\ NoResults
    /\ NoMerge

\* the calls in progress other than t see one more step made in their midst
Step(t, position, result) ==
    [u \in 1 .. NCalls |->
        IF u = t THEN [threads[t] EXCEPT !.pc = position, !.result = result]
        ELSE IF threads[u].pc \notin {"idle", "done"}
        THEN [threads[u] EXCEPT !.mixed = TRUE]
        ELSE threads[u]]

\* call t raises e
Raised(t, e) ==
    /\ threads' = Step(t, "done", Raise(e))
    /\ UNCHANGED frames

\* call t goes on at position with the frame f
GoesOn(t, position, f) ==
    /\ threads' = Step(t, position, threads[t].result)
    /\ frames' = [frames EXCEPT ![Slot(t)] = f]

Elsewhere == UNCHANGED <<pc, archives, codecVars, keyVars, resultVars, mergeVars>>

\* read_ndArch(fname) is called: the argument is bound
CallStart(t) ==
    /\ threads[t].pc = "idle"
    /\ GoesOn(t, "parse", [frames[Slot(t)] EXCEPT !.fname = threads[t].arg])
    /\ Elsewhere

\* lines 54-56: fn_ROOT, fn_CLASS, fn_VERSION
CallParse(t) ==
    /\ threads[t].pc = "parse"
    /\ LET f == frames[Slot(t)]
           toks == split(RootOf(f.fname), "-")
       IN IF Len(toks) < 2 THEN Raised(t, "IndexError")
          ELSE GoesOn(t, "open", [f EXCEPT !.fn_CLASS = toks[Len(toks) - 1],
                                           !.fn_VERSION = toks[Len(toks)]])
    /\ Elsewhere

\* line 58: data = fits.getdata(fname).copy(), which opens and reads the
\* file by its name; header is not bound yet
CallGetdata(t) ==
    /\ threads[t].pc = "open"
    /\ LET f == frames[Slot(t)] IN
       IF f.fname \notin DOMAIN archives THEN Raised(t, "IOError")
       ELSE GoesOn(t, "header", [f EXCEPT !.data = archives[f.fname].data])
    /\ Elsewhere

\* line 59: header = fits.getheader(fname), which opens and reads the file by
\* its name once more
CallGetheader(t) ==
    /\ threads[t].pc = "header"
    /\ LET f == frames[Slot(t)] IN
       IF f.fname \notin DOMAIN archives THEN Raised(t, "IOError")
       ELSE GoesOn(t, "info", [f EXCEPT !.header = archives[f.fname].header])
    /\ Elsewhere

\* lines 61-76: npars, infodict with its defaults, the index baselines
CallInfo(t) ==
    /\ threads[t].pc = "info"
    /\ LET f == frames[Slot(t)]
           npars == NPars(f.data)
       IN IF ~HasKey(f.header, "CRVAL1") \/ ~HasKey(f.header, "CDELT1")
          THEN Raised(t, "KeyError")
          ELSE GoesOn(t, "axis",
                 [f EXCEPT
                    !.npars = npars,
                    !.infodict =
                       [filename |-> BaseName(f.fname),
                        class |-> f.fn_CLASS,
                        version |-> f.fn_VERSION,
                        coeff0 |-> Get(f.header, "CRVAL1"),
                        coeff1 |-> Get(f.header, "CDELT1"),
                        nwave |-> Get(f.header, "NAXIS1"),
                        fluxunit |-> IF HasKey(f.header, "BUNIT")
                                     THEN Get(f.header, "BUNIT") ELSE Str(""),
                        par_names |-> [i1 \in 1 .. npars |-> Str("")],
                        par_units |-> [i1 \in 1 .. npars |-> Str("")],
                        par_axistype |-> [i1 \in 1 .. npars |-> "index"]],
                    !.baselines = [i1 \in 1 .. npars |->
                                      IndexBaseline(f.data.shape[i1])],
                    !.ipar = 0])
    /\ Elsewhere

\* lines 78-110, one iteration of the loop over the parameters
CallAxis(t) ==
    /\ threads[t].pc = "axis"
    /\ frames[Slot(t)].ipar < frames[Slot(t)].npars
    /\ LET f == frames[Slot(t)]
           a == DecodeAxis(f.header, f.data, f.ipar)
       IN IF \E j1 \in 1 .. Len(a.baseline) : a.baseline[j1] = KeyErrorRaised
          THEN Raised(t, "KeyError")
          ELSE GoesOn(t, "axis",
                 [f EXCEPT
                    !.infodict.par_names[f.ipar + 1] = a.name,
                    !.infodict.par_units[f.ipar + 1] = a.unit,
                    !.infodict.par_axistype[f.ipar + 1] = a.axistype,
                    !.baselines[f.ipar + 1] = a.baseline,
                    !.ipar = f.ipar + 1])
    /\ Elsewhere

\* line 111: return data, baselines, infodict
CallReturn(t) ==
    /\ threads[t].pc = "axis"
    /\ frames[Slot(t)].ipar >= frames[Slot(t)].npars
    /\ LET f == frames[Slot(t)] IN
       /\ threads' = Step(t, "done",
                          [error |-> "none",
                           value |-> <<[data |-> f.data,
                                        baselines |-> f.baselines,
                                        infodict |-> f.infodict]>>])
       /\ UNCHANGED frames
    /\ Elsewhere

NextCalls ==
    \E t \in 1 .. NCalls :
       \/ CallStart(t)
       \/ CallParse(t)
       \/ CallGetdata(t)
       \/ CallGetheader(t)
       \/ CallInfo(t)
       \/ CallAxis(t)
       \/ CallReturn(t)

SpecCalls == InitCalls /\ [][NextCalls]_vars

-----------------------------------------------------------------------------
(* Round trip *)

\* a baseline b that is valid for an axis of the given kind and length
ValidAxis(kind, b, size) ==
    /\ Len(b) = size
    /\ CASE kind = "regular" ->
              /\ size >= 2
              /\ \A j1 \in 1 .. size :
                    /\ b[j1].t = "num"
                    /\ b[j1].n = b[1].n + (j1 - 1) * (b[2].n - b[1].n)
         [] kind = "irregular" -> \A j1 \in 1 .. size : b[j1].t = "num"
         [] kind \in {"labeled", "named"} -> \A j1 \in 1 .. size : b[j1].t = "str"
         [] kind = "index" -> b = IndexBaseline(size)
         [] OTHER -> FALSE

\* valid arguments of write_ndArch: one baseline of the right length and
\* content per parameter axis, each kind one of the five
ValidInput(in) ==
    LET npars == Len(in.data.shape) - 1 IN
    /\ Len(in.baselines) = npars
    /\ Len(in.infodict.par_axistype) = npars
    /\ \A i1 \in 1 .. npars :
          ValidAxis(in.infodict.par_axistype[i1], in.baselines[i1],
                    in.data.shape[i1])

\* the tuple returned by read_ndArch repeats what was written
SameArchive(in, res) ==
    /\ res.error = "none"
    /\ res.value[1].data = in.data
    /\ res.value[1].baselines = in.baselines
    /\ res.value[1].infodict.par_axistype = in.infodict.par_axistype

\* C1: for every valid (data, baselines, infodict) with kinds among the five,
\* write_ndArch succeeds and read_ndArch of the written file returns the same
\* data, the same baselines and the same par_axistype.
C1_RoundTrip ==
    ValidInput(input) =>
        /\ pc # "failed"
        /\ pc = "done" => SameArchive(input, rres)

\* The same for archives all of whose parameter axes have at least one sample.
C1_RoundTripNonEmpty ==
    (ValidInput(input) /\ \A i1 \in 1 .. NPars(input.data) : input.data.shape[i1] >= 1) =>
        /\ pc # "failed"
        /\ pc = "done" => SameArchive(input, rres)

-----------------------------------------------------------------------------
(* Detection of the axis kinds, stated on the header of the file read *)

\* read_ndArch has returned a tuple
Decoded == pc = "done" /\ rres.error = "none"

FileShape == disk[1].data.shape
FileNPar == Len(FileShape) - 1
Present(k) == \E i \in 1 .. Len(disk[1].header) : disk[1].header[i].key = k
ValueOf(k) ==
    disk[1].header[CHOOSE i \in 1 .. Len(disk[1].header) :
                       disk[1].header[i].key = k].value

\* the FITS axis number of the parameter axis at 1-based position i1
AxisNumber(i1) == FileNPar + 2 - i1
AxisKey(prefix, i1) == prefix \o str(AxisNumber(i1))
IndexedKey(prefix, i1, j1) == prefix \o str(AxisNumber(i1)) \o "_" \o str(j1)

\* the key family is present for every j in 1 .. N_axis
Complete(prefix, i1) ==
    \A j1 \in 1 .. FileShape[i1] : Present(IndexedKey(prefix, i1, j1))
CompleteRegular(i1) ==
    /\ Present(AxisKey("CRPIX", i1))
    /\ Present(AxisKey("CRVAL", i1))
    /\ Present(AxisKey("CDELT", i1))

\* the header holds no axis-specific key of the axis
NoAxisKeys(i1) ==
    /\ ~Present(AxisKey("CRPIX", i1))
    /\ ~Present(AxisKey("CRVAL", i1))
    /\ ~Present(AxisKey("CDELT", i1))
    /\ \A j1 \in 1 .. MaxLen + 1, prefix \in {"PV", "PS", "N"} :
          ~Present(IndexedKey(prefix, i1, j1))

KindRead(i1) == rres.value[1].infodict.par_axistype[i1]
BaselineRead(i1) == rres.value[1].baselines[i1]
FamilyBaseline(prefix, i1) ==
    [j1 \in 1 .. FileShape[i1] |-> ValueOf(IndexedKey(prefix, i1, j1))]

\* C2: an axis is irregular, labeled or named only when the PV, PS or N key is
\* present for every j in 1..N_axis; an axis missing a key of a family falls
\* through to the next rule, and to index when no family is complete; the
\* file is decoded without error whichever keys are missing.
C2_AllOrNothing ==
    pc = "done" =>
      /\ rres.error = "none"
      /\ \A i1 \in 1 .. FileNPar :
         /\ KindRead(i1) = "irregular" => Complete("PV", i1)
         /\ KindRead(i1) = "labeled" => Complete("PS", i1)
         /\ KindRead(i1) = "named" => Complete("N", i1)
         /\ (~CompleteRegular(i1) /\ ~Complete("PV", i1) /\ Complete("PS", i1))
               => KindRead(i1) = "labeled"
         /\ (~CompleteRegular(i1) /\ ~Complete("PV", i1) /\ ~Complete("PS", i1)
               /\ Complete("N", i1)) => KindRead(i1) = "named"
         /\ (~CompleteRegular(i1) /\ ~Complete("PV", i1) /\ ~Complete("PS", i1)
               /\ ~Complete("N", i1))
               => (KindRead(i1) = "index"
                   /\ BaselineRead(i1) = IndexBaseline(FileShape[i1]))

\* an axis with PV1 but not PV2, every other family incomplete too, read as index
C2_Witness ==
    /\ Decoded
    /\ \E i1 \in 1 .. FileNPar :
          /\ FileShape[i1] >= 2
          /\ Present(IndexedKey("PV", i1, 1))
          /\ ~Present(IndexedKey("PV", i1, 2))
          /\ Present(IndexedKey("PS", i1, 2))
          /\ ~Complete("PS", i1)
          /\ KindRead(i1) = "index"

\* C3: an axis of any length whose header holds no axis-specific key is read
\* as kind 'index' with the baseline [1, 2, ..., L].
C3_IndexDefault ==
    Decoded =>
      \A i1 \in 1 .. FileNPar :
         NoAxisKeys(i1) =>
            /\ KindRead(i1) = "index"
            /\ BaselineRead(i1) = IndexBaseline(FileShape[i1])

\* The same for the axes that have at least one sample.
C3_IndexDefaultNonEmpty ==
    Decoded =>
      \A i1 \in 1 .. FileNPar :
         (NoAxisKeys(i1) /\ FileShape[i1] >= 1) =>
            /\ KindRead(i1) = "index"
            /\ BaselineRead(i1) = IndexBaseline(FileShape[i1])

\* the kind that matches first in the order regular, irregular, labeled, named, index
FirstMatch(i1) ==
    IF CompleteRegular(i1) THEN "regular"
    ELSE IF Complete("PV", i1) THEN "irregular"
    ELSE IF Complete("PS", i1) THEN "labeled"
    ELSE IF Complete("N", i1) THEN "named"
    ELSE "index"

\* the baseline the header gives for a kind
BaselineFor(kind, i1) ==
    CASE kind = "regular" ->
           [k1 \in 1 .. FileShape[i1] |->
               Num((k1 - ValueOf(AxisKey("CRPIX", i1)).n)
                   * ValueOf(AxisKey("CDELT", i1)).n
                   + ValueOf(AxisKey("CRVAL", i1)).n)]
      [] kind = "irregular" -> FamilyBaseline("PV", i1)
      [] kind = "labeled" -> FamilyBaseline("PS", i1)
      [] kind = "named" -> FamilyBaseline("N", i1)
      [] OTHER -> IndexBaseline(FileShape[i1])

\* C4: every axis gets exactly one kind, the first that matches in the order
\* regular, irregular, labeled, named, index, and its baseline is the one of
\* that kind, also when the header satisfies several families at once.
C4_Precedence ==
    Decoded =>
      \A i1 \in 1 .. FileNPar :
         /\ KindRead(i1) = FirstMatch(i1)
         /\ BaselineRead(i1) = BaselineFor(FirstMatch(i1), i1)

\* an axis of two samples with the PS and N families complete, PV incomplete
\* and no regular triple, read as labeled
C4_Witness ==
    /\ Decoded
    /\ \E i1 \in 1 .. FileNPar :
          /\ FileShape[i1] >= 2
          /\ ~CompleteRegular(i1) /\ ~Complete("PV", i1)
          /\ Complete("PS", i1) /\ Complete("N", i1)
          /\ KindRead(i1) = "labeled"
          /\ BaselineRead(i1) = FamilyBaseline("PS", i1)

\* C5: for an axis detected as regular with CRPIX = p, CRVAL = v0, CDELT = d,
\* value[k] = (k + 1 - p) * d + v0 for k = 0 .. L-1; with p = 1 this is
\* [v0, v0 + d, ..., v0 + (L-1) d].
C5_RegularReconstruction ==
    Decoded =>
      \A i1 \in 1 .. FileNPar :
         KindRead(i1) = "regular" =>
            LET p == ValueOf(AxisKey("CRPIX", i1)).n
                v0 == ValueOf(AxisKey("CRVAL", i1)).n
                d == ValueOf(AxisKey("CDELT", i1)).n
            IN /\ Len(BaselineRead(i1)) = FileShape[i1]
               /\ \A k \in 0 .. FileShape[i1] - 1 :
                     /\ BaselineRead(i1)[k + 1] = Num((k + 1 - p) * d + v0)
                     /\ p = 1 => BaselineRead(i1)[k + 1] = Num(v0 + k * d)

\* a regular axis of two samples with reference pixel 2: [v0 - d, v0]
C5_Witness ==
    /\ Decoded
    /\ \E i1 \in 1 .. FileNPar :
          /\ KindRead(i1) = "regular"
          /\ FileShape[i1] = 2
          /\ ValueOf(AxisKey("CRPIX", i1)) = Num(2)
          /\ BaselineRead(i1) = <<Num(-6), Num(-1)>>

-----------------------------------------------------------------------------
(* File names and required keys *)

\* the part of a name before its extension (before the last '.')
NameStem(name) ==
    LET dots == {i \in 1 .. Len(name) : name[i] = "."} IN
    IF dots = {} THEN name ELSE SubSeq(name, 1, SetMax(dots) - 1)
HasExtension(name) == \E i \in 1 .. Len(name) : name[i] = "."
StemTokens(name) == split(NameStem(name), "-")
EndsWithFits(name) ==
    Len(name) >= 5 /\ SubSeq(name, Len(name) - 4, Len(name)) = DotFits

\* <prefix>-<CLASS>-<VERSION>.<ext>
HasForm(name) == HasExtension(name) /\ Len(StemTokens(name)) >= 3
ClassToken(name) == StemTokens(name)[Len(StemTokens(name)) - 1]
VersionToken(name) == StemTokens(name)[Len(StemTokens(name))]

\* C6: when the stored array is 1-D (and the name and the wavelength keys are
\* in order) read_ndArch raises no error and returns an empty baseline list
\* and empty par_names, par_units and par_axistype.
C6_ZeroParameter ==
    (/\ pc = "done" /\ disk # <<>>
     /\ Len(FileShape) = 1
     /\ Present("CRVAL1") /\ Present("CDELT1")
     /\ Len(StemTokens(fname)) >= 2) =>
        /\ rres.error = "none"
        /\ rres.value[1].baselines = <<>>
        /\ rres.value[1].infodict.par_names = <<>>
        /\ rres.value[1].infodict.par_units = <<>>
        /\ rres.value[1].infodict.par_axistype = <<>>
        /\ rres.value[1].data = disk[1].data

\* a 1-D archive has been decoded
C6_Witness ==
    /\ Decoded /\ Len(FileShape) = 1
    /\ rres.value[1].baselines = <<>>
    /\ rres.value[1].infodict.nwave = Num(NWave)

\* C7 as claimed: for every name <prefix>-<CLASS>-<VERSION>.<ext>, whatever the
\* extension, read_ndArch reports class = CLASS and version = VERSION.
C7_ParsesAnyExtension ==
    (Decoded /\ HasForm(fname)) =>
        /\ rres.value[1].infodict.class = ClassToken(fname)
        /\ rres.value[1].infodict.version = VersionToken(fname)

\* C7 as amended: for every name <prefix>-<CLASS>-<VERSION>.fits, read_ndArch
\* reports class = CLASS and version = VERSION.
C7_ParsesFitsNames ==
    (Decoded /\ HasForm(fname) /\ EndsWithFits(fname)) =>
        /\ rres.value[1].infodict.class = ClassToken(fname)
        /\ rres.value[1].infodict.version = VersionToken(fname)

\* "a-b-GA-v1.fits" decoded to class GA, version v1
C7_Witness ==
    /\ Decoded
    /\ fname = <<"a", "-", "b", "-", "G", "A", "-", "v", "1">> \o DotFits
    /\ rres.value[1].infodict.class = <<"G", "A">>
    /\ rres.value[1].infodict.version = <<"v", "1">>

\* C8 as claimed: a name with fewer than two '-'-delimited tokens before the
\* extension makes read_ndArch fail with InvalidNameError, without a result.
C8_InvalidNameError ==
    (pc = "done" /\ Len(StemTokens(fname)) < 2) =>
        /\ rres.error = "InvalidNameError"
        /\ rres.value = <<>>

\* the name holds the text '.fits' somewhere
ContainsFits(name) ==
    \E i \in 1 .. Len(name) - 4 : SubSeq(name, i, i + 4) = DotFits

\* a '-' stands in the name as it was given, directory part included, before
\* its final '.fits', or before its last character when the name holds no
\* '.fits'
HyphenBefore(name) ==
    \E i \in 1 .. Len(name) - (IF EndsWithFits(name) THEN 5 ELSE 1) :
       name[i] = "-"

\* C8 as amended: a name that ends in '.fits' or holds no '.fits', and has no
\* '-' before that end, makes read_ndArch fail with IndexError, without a
\* result, whether or not the file exists.
C8_IndexError ==
    (/\ pc = "done"
     /\ EndsWithFits(fname) \/ ~ContainsFits(fname)
     /\ ~HyphenBefore(fname)) =>
        /\ rres.error = "IndexError"
        /\ rres.value = <<>>

\* A '-' in the directory part or in the extension counts as a delimiter:
\* such a name raises no IndexError ('a-b/bad.fits', 'bad.e-t').
HyphenAnywhereParses ==
    (/\ pc = "done"
     /\ EndsWithFits(fname) \/ ~ContainsFits(fname)
     /\ HyphenBefore(fname)) => rres.error # "IndexError"

\* "bad.e-t" and "a-b/bad.fits", naming existing well-formed files, have been
\* decoded
HyphenAnywhereWitness ==
    /\ Decoded
    /\ fname \in {<<"b", "a", "d", ".", "e", "-", "t">>,
                  <<"a", "-", "b", "/", "b", "a", "d">> \o DotFits}

\* "bad.ext", naming an existing well-formed file, has raised IndexError
C8_Witness ==
    /\ pc = "done"
    /\ fname = <<"b", "a", "d", ".", "e", "x", "t">>
    /\ disk # <<>> /\ Present("CRVAL1") /\ Present("CDELT1")
    /\ rres.error = "IndexError"

\* C9 as claimed: a header with neither CRVAL1 nor CDELT1 makes read_ndArch
\* fail with MalformedArchiveError, without a partial result.
C9_MalformedArchiveError ==
    (pc = "done" /\ disk # <<>> /\ ~Present("CRVAL1") /\ ~Present("CDELT1")) =>
        /\ rres.error = "MalformedArchiveError"
        /\ rres.value = <<>>

\* C9 as amended: such a header makes read_ndArch fail with KeyError (with
\* IndexError when the name is invalid too, which is found first), without a
\* partial result.
C9_KeyError ==
    (pc = "done" /\ disk # <<>> /\ ~Present("CRVAL1") /\ ~Present("CDELT1")) =>
        /\ rres.error = (IF ~HyphenBefore(fname) THEN "IndexError"
                         ELSE "KeyError")
        /\ rres.value = <<>>

\* a well-named file of one parameter axis without CRVAL1 and CDELT1 has
\* raised KeyError
C9_Witness ==
    /\ pc = "done" /\ disk # <<>>
    /\ ~Present("CRVAL1") /\ ~Present("CDELT1")
    /\ FileNPar = 1
    /\ HasForm(fname) /\ EndsWithFits(fname)
    /\ rres = Raise("KeyError")

-----------------------------------------------------------------------------
(* Validation on encode *)

\* a baseline list of the wrong length, or a baseline shorter or longer than
\* its axis
WrongLength(in) ==
    LET npars == Len(in.data.shape) - 1 IN
    \/ Len(in.baselines) # npars
    \/ \E i1 \in 1 .. npars :
          i1 <= Len(in.baselines) /\ Len(in.baselines[i1]) # in.data.shape[i1]

\* C10: write_ndArch fails, whatever the class of the error, when
\* len(baselines[i]) differs from data.shape[i] (shorter or longer) for an
\* axis of any kind, and when len(baselines) differs from rank(data) - 1.
C10_RejectsWrongLength ==
    (pc # "start" /\ WrongLength(input)) => wres # "ok"

\* the call of write_ndArch has returned or raised
Called == pc # "start"
\* the call of write_ndArch has returned without error
Written == pc \notin {"start", "failed"}

\* an axis declared 'regular' whose baseline has fewer than 2 samples
DegenerateRegular(in) ==
    \E i1 \in 1 .. Len(in.data.shape) - 1 :
       /\ i1 <= Len(in.infodict.par_axistype)
       /\ strip(in.infodict.par_axistype[i1]) = "regular"
       /\ i1 <= Len(in.baselines)
       /\ Len(in.baselines[i1]) < 2

\* C11 as claimed: write_ndArch fails with DegenerateAxisError when an axis
\* declared 'regular' has fewer than 2 baseline samples.
C11_DegenerateAxisError ==
    (Called /\ DegenerateRegular(input)) => wres = "DegenerateAxisError"

\* C11 as amended: write_ndArch fails with IndexError when an axis declared
\* 'regular' has fewer than 2 baseline samples, and writes no file.
C11_DegenerateIndexError ==
    (Called /\ DegenerateRegular(input)) =>
        /\ wres = "IndexError"
        /\ pc = "failed"
        /\ disk = before

\* a 'regular' axis of one sample with its one-sample baseline has raised
\* IndexError
C11_Witness ==
    /\ pc = "failed" /\ wres = "IndexError"
    /\ \E i1 \in 1 .. Len(input.data.shape) - 1 :
          /\ input.infodict.par_axistype[i1] = "regular"
          /\ input.data.shape[i1] = 1
          /\ i1 <= Len(input.baselines)
          /\ Len(input.baselines[i1]) = 1
          /\ input.baselines[i1][1].t = "num"

\* a par_axistype entry that is none of the five kinds
UnknownKind(in) ==
    \E i1 \in 1 .. Len(in.infodict.par_axistype) :
       strip(in.infodict.par_axistype[i1]) \notin Kinds

\* C12: write_ndArch rejects a par_axistype entry that is none of regular,
\* irregular, labeled, named, index: the call fails and no archive with that
\* axis as an index axis is written.
C12_RejectsUnknownKind ==
    (Called /\ UnknownKind(input)) => wres # "ok"

\* C13 as claimed: the written header contains BUNIT if and only if the
\* caller's flux unit is non-empty; an absent or empty flux unit gives no BUNIT.
C13_BunitIffNonEmpty ==
    Written =>
        (HasKey(disk[1].header, "BUNIT")
           <=> ("fluxunit" \in DOMAIN input.infodict
                /\ input.infodict.fluxunit # Str("")))

\* C13 as amended: the written header contains BUNIT if and only if infodict
\* has the key 'fluxunit', whatever its value (the empty string too), and
\* BUNIT holds that value.
C13_BunitIffProvided ==
    Written =>
        /\ HasKey(disk[1].header, "BUNIT") <=> "fluxunit" \in DOMAIN input.infodict
        /\ "fluxunit" \in DOMAIN input.infodict
              => Get(disk[1].header, "BUNIT") = input.infodict.fluxunit

\* an archive written with fluxunit '' carries BUNIT = ''
C13_Witness ==
    /\ Written
    /\ "fluxunit" \in DOMAIN input.infodict
    /\ input.infodict.fluxunit = Str("")
    /\ HasKey(disk[1].header, "BUNIT")
    /\ Get(disk[1].header, "BUNIT") = Str("")

-----------------------------------------------------------------------------
(* The returned array *)

\* C14: the array returned by read_ndArch lives in a buffer other than the
\* one of the HDU, the caller's assignment leaves the HDU's buffer as it was
\* read, and a second read_ndArch of the same file after the assignment
\* returns the data, baselines and infodict of the first.
C14_DefensiveCopy ==
    (pc \in {"done", "mutated", "reread"} /\ rres.error = "none") =>
        /\ dataref # hduref
        /\ mem[hduref] = rres.value[1].data.flat
        /\ mem[hduref] = disk[1].data.flat
        /\ pc = "reread" => rres2 = rres

\* the caller's array differs from the one first returned, and the second read
\* has returned the first result
C14_Witness ==
    /\ pc = "reread"
    /\ rres.error = "none"
    /\ NPars(rres.value[1].data) >= 1
    /\ mem[dataref] # rres.value[1].data.flat
    /\ rres2 = rres

-----------------------------------------------------------------------------
(* The header written *)

HeaderWritten == disk[1].header
NParWritten == Len(input.data.shape) - 1

\* the names (or units) read_ndArch returns for what the caller passed
NamesExpected(field) ==
    IF field \in DOMAIN input.infodict THEN input.infodict[field]
    ELSE [i1 \in 1 .. NParWritten |-> Str("")]

\* C15: for every ipar in 0..P-1, par_names[ipar] and par_units[ipar] are
\* stored under CNAME{ax} and CUNIT{ax} with ax = P + 1 - ipar in 2..P+1,
\* read_ndArch returns them at position ipar, and CNAME1, CUNIT1, CRPIX1,
\* CRVAL1 and CDELT1 describe the wavelength axis.
C15_NameUnitRoundTrip ==
    Written =>
        /\ \A ipar \in 0 .. NParWritten - 1 :
              LET axn == NParWritten + 1 - ipar IN
              /\ axn \in 2 .. NParWritten + 1
              /\ "par_names" \in DOMAIN input.infodict =>
                     /\ HasKey(HeaderWritten, "CNAME" \o str(axn))
                     /\ Get(HeaderWritten, "CNAME" \o str(axn))
                           = input.infodict.par_names[ipar + 1]
              /\ "par_units" \in DOMAIN input.infodict =>
                     /\ HasKey(HeaderWritten, "CUNIT" \o str(axn))
                     /\ Get(HeaderWritten, "CUNIT" \o str(axn))
                           = input.infodict.par_units[ipar + 1]
        /\ Get(HeaderWritten, "CNAME1") = Str("loglam")
        /\ Get(HeaderWritten, "CUNIT1") = Str("log10(Angstroms)")
        /\ Get(HeaderWritten, "CRPIX1") = Num(1)
        /\ Get(HeaderWritten, "CRVAL1") = input.infodict.coeff0
        /\ Get(HeaderWritten, "CDELT1") = input.infodict.coeff1
        /\ (pc # "written" /\ rres.error = "none") =>
              /\ rres.value[1].infodict.par_names = NamesExpected("par_names")
              /\ rres.value[1].infodict.par_units = NamesExpected("par_units")
              /\ rres.value[1].infodict.coeff0 = input.infodict.coeff0
              /\ rres.value[1].infodict.coeff1 = input.infodict.coeff1

\* two parameter axes, the last one regular, written with names and units and
\* read back in the same positions
C15_Witness ==
    /\ pc = "done" /\ rres.error = "none"
    /\ NParWritten = 2
    /\ input.infodict.par_axistype[2] = "regular"
    /\ "par_units" \in DOMAIN input.infodict
    /\ Get(HeaderWritten, "CNAME3") = Str("par0")
    /\ Get(HeaderWritten, "CUNIT2") = Str("u1")
    /\ rres.value[1].infodict.par_names = <<Str("par0"), Str("par1")>>
    /\ rres.value[1].infodict.par_units = <<Str("u0"), Str("u1")>>

\* the keys the loop over the parameters can write for axis number axn
AxisEntryKeys(axn) ==
    {prefix \o str(axn) : prefix \in {"CNAME", "CUNIT", "CRPIX", "CRVAL", "CDELT"}}
    \cup {prefix \o str(axn) \o "_" \o str(j1) :
             prefix \in {"PV", "PS", "N"}, j1 \in 1 .. MaxLen + 1}

\* the positions in the written header of the entries of axis number axn
EntryPositions(axn) ==
    LET keys == AxisEntryKeys(axn) IN
    {i \in 1 .. Len(HeaderWritten) : HeaderWritten[i].key \in keys}

\* C16: in the written header all entries that the loop over the parameters
\* wrote for axis number ax come before all entries it wrote for axis number
\* ax + 1, for ax from 2 to P + 1: the axes are written in descending ipar.
C16_EncodeOrdering ==
    Written =>
        \A axn \in 2 .. NParWritten + 1 :
           LET lower == EntryPositions(axn)
               upper == EntryPositions(axn + 1)
           IN \A i \in lower, k \in upper : i < k

\* two parameter axes that both have at least two entries in the header
C16_Witness ==
    /\ Written
    /\ NParWritten = 2
    /\ Cardinality(EntryPositions(2)) >= 2
    /\ Cardinality(EntryPositions(3)) >= 2
    /\ \A i \in EntryPositions(2), k \in EntryPositions(3) : i < k

-----------------------------------------------------------------------------
(* Overwriting *)

\* the arguments are encoded without error
Encodable(in) == write_ndArch(in.data, in.baselines, in.infodict).error = "none"

\* C18: when the file named infodict['filename'] exists, a write_ndArch call
\* whose arguments are encoded without error succeeds, and afterwards the file
\* holds the newly encoded archive and nothing of the old one.
C18_Overwrites ==
    (/\ Called /\ before # <<>>
     /\ before[1].name = input.infodict.filename
     /\ Encodable(input)) =>
        /\ wres = "ok"
        /\ Len(disk) = 1
        /\ disk[1].name = input.infodict.filename
        /\ disk[1].data = input.data
        /\ disk[1].header
             = write_ndArch(input.data, input.baselines, input.infodict).file[1].header
        /\ disk # before

\* an archive of two parameter axes has replaced the old archive
C18_Witness ==
    /\ pc = "written" /\ wres = "ok"
    /\ before = <<OldArchive>>
    /\ NParWritten = 2
    /\ disk[1].data = input.data
    /\ Get(disk[1].header, "NAXIS1") = Num(NWave)
    /\ Get(disk[1].header, "CRVAL1") = input.infodict.coeff0

-----------------------------------------------------------------------------
(* Header keys *)

\* C17: the keys write_ndArch emits for an archive are pairwise distinct and
\* each is at most 8 characters long, for every array shape, the indexed keys
\* PV{ax}_{j}, PS{ax}_{j} and N{ax}_{j} for every j in 1..N_axis included.
C17_KeysWellFormed ==
    pc = "keyed" =>
        /\ kin[1].a # kin[1].b => kout[1] # kout[2]
        /\ Len(kout[1]) <= 8
        /\ Len(kout[2]) <= 8

\* The keys of an archive are pairwise distinct.
KeysDistinct ==
    pc = "keyed" => (kin[1].a # kin[1].b => kout[1] # kout[2])

\* The keys of an archive with at most 8 parameter axes, each of at most 999
\* samples, are at most 8 characters long.
KeysShortForSmallAxes ==
    (/\ pc = "keyed" /\ kin[1].npars <= 8
     /\ kin[1].a.size <= 999 /\ kin[1].b.size <= 999) =>
        /\ Len(kout[1]) <= 8
        /\ Len(kout[2]) <= 8

-----------------------------------------------------------------------------
(* Result files *)

\* a file that exists keeps its content in the step
OldFilesKept == \A q \in DOMAIN fs : q \in DOMAIN fs' /\ fs'[q] = fs[q]

\* the file a write method is asked to write
TargetOf(method) ==
    Under(rm.dest, IF method = "write_fiber" THEN FiberName(rm.zpick)
                   ELSE PlateName(rm.zpick))

\* C19: for a Write_Redmonster constructed with clobber=False, no call of
\* write_fiber (write_fiberid) or write_plate changes or replaces a file that
\* exists, and when the target exists the call writes its output under one
\* more name.
C19_NonDestructive ==
    [][(pc = "ready" /\ rm.given = "False") =>
          /\ OldFilesKept
          /\ (calls' = calls + 1 /\ exists(fs, TargetOf(wout'.method)))
                => DOMAIN fs' # DOMAIN fs]_vars

\* C20: a file that exists is replaced only by a Write_Redmonster whose
\* caller passed clobber=True; one constructed without a clobber argument
\* replaces none.
C20_DefaultKeepsOldFiles ==
    [][(pc = "ready" /\ ~OldFilesKept) => rm.given = "True"]_vars

\* The Write_Redmonster of io.py replaces a file that exists only when the
\* caller passed clobber=True.
OldFilesKeptByIo ==
    [][(pc = "ready" /\ rm.module = "io" /\ ~OldFilesKept)
          => rm.given = "True"]_vars

\* the configuration lacks one of the three variables, or holds it empty
EnvIncomplete ==
    \E k \in {"REDMONSTER_SPECTRO_REDUX", "RUN2D", "RUN1D"} :
       env[k] \in {<<>>, <<"">>}

\* the names of the result files in the working directory
WorkingDirNames ==
    {FiberName(Zpick), PlateName(Zpick)}
    \cup {PlateStampName(Zpick, t) : t \in 0 .. MaxClock}

\* C21: when no dest is given and one of REDMONSTER_SPECTRO_REDUX, RUN2D,
\* RUN1D is absent or empty, the construction of a Write_Redmonster does not
\* fail, dest is None and every file the object writes is in the working
\* directory.
C21_DestinationFallback ==
    (pc \in {"ready", "unbuilt"} /\ ctor.dest = <<>> /\ EnvIncomplete) =>
        /\ pc = "ready"
        /\ rm.dest = <<>>
        /\ \A q \in DOMAIN fs : fs[q].serial > 0 => q \in WorkingDirNames

\* With the three variables set and one of them empty the construction
\* succeeds and dest is None.
FallbackWhenEmpty ==
    (/\ pc \in {"ready", "unbuilt"} /\ ctor.dest = <<>>
     /\ \A k \in DOMAIN env : env[k] # <<>>
     /\ \E k \in DOMAIN env : env[k] = <<"">>) =>
        /\ pc = "ready"
        /\ rm.dest = <<>>

\* the files the step creates or changes
FilesWritten == {q \in DOMAIN fs' : q \notin DOMAIN fs \/ fs'[q] # fs[q]}

\* C24: whatever clobber, dest and the existence of the target file are, a
\* call of write_fiber (write_fiberid) or write_plate writes exactly one file
\* and returns without raising.
C24_EveryWriteCompletes ==
    [][calls' = calls + 1 =>
          /\ wout'.error = "none"
          /\ Cardinality(FilesWritten) = 1]_vars

\* A call of write_plate that raises nothing writes exactly one file.
PlateWritesOneFile ==
    [][(calls' = calls + 1 /\ wout'.method = "write_plate"
        /\ wout'.error = "none") => Cardinality(FilesWritten) = 1]_vars

-----------------------------------------------------------------------------
(* Failures of the encoding *)

\* C25: when write_ndArch raises while it emits the header entries, the
\* destination file is neither created nor modified: the disk is as it was
\* before the call.
C25_FailureLeavesDisk ==
    pc = "failed" => disk = before

\* an encoding that failed on a baseline that is too short while an older
\* archive of the same name was on disk
C25_Witness ==
    /\ pc = "failed"
    /\ wres = "IndexError"
    /\ before = <<OldArchive>>
    /\ disk = <<OldArchive>>
    /\ \E i \in 1 .. Len(input.baselines) :
          Len(input.baselines[i]) < input.data.shape[i]

-----------------------------------------------------------------------------
(* The merge methods *)

\* the filtering loop of merge_plates is over
Filtered == pc \in {"filtered", "raised"} /\ Truthy(env.RUN2D)

\* C28: after the filtering loop of merge_plates the plates list holds no
\* entry ending in '.fits' and holds every entry of the directory that does
\* not end in '.fits'.
C28_PlatesFiltered ==
    Filtered =>
        /\ \A i \in 1 .. Len(mlist) : LastFive(mlist[i]) # DotFits
        /\ \A name \in DOMAIN mdir :
              LastFive(name) # DotFits => \E i \in 1 .. Len(mlist) : mlist[i] = name

\* The filtering loop removes only entries ending in '.fits'.
PlatesKeepsDirectories ==
    Filtered =>
        \A name \in DOMAIN mdir :
           LastFive(name) # DotFits => \E i \in 1 .. Len(mlist) : mlist[i] = name

\* The list is free of '.fits' entries when no two of them are adjacent in
\* the sorted listing.
PlatesFilteredWhenApart ==
    LET all == sort(CHOOSE paths \in iglob(DOMAIN mdir) : TRUE, "str") IN
    (Filtered /\ \A i \in 1 .. Len(all) - 1 :
                    LastFive(all[i]) # DotFits \/ LastFive(all[i + 1]) # DotFits)
        => \A i \in 1 .. Len(mlist) : LastFive(mlist[i]) # DotFits

\* the fiber number in the name of a per-fiber chi2 file
Chi2FiberOf(name) == int(Chi2Group(mobj, name))[1]

\* C26: in the merged chi2 file, FIBERID[i] is the fiber number in the name
\* of the per-fiber file whose array is row i of the primary array.
C26_Chi2RowsMatch ==
    pc = "merged" =>
        LET out == mdir[Chi2Merged(mobj)] IN
        \A i \in 1 .. Len(out.rows) :
           out.fiberid[i] = Chi2FiberOf(out.rows[i].origin)

\* The rows match when all the fiber numbers have the same number of digits.
Chi2RowsMatchSameWidth ==
    (pc = "merged" /\ \A i, j \in 1 .. Len(mlist) : Len(mlist[i]) = Len(mlist[j])) =>
        LET out == mdir[Chi2Merged(mobj)] IN
        \A i \in 1 .. Len(out.rows) :
           out.fiberid[i] = Chi2FiberOf(out.rows[i].origin)

\* C27: in every step of a merge_chi2 run a per-fiber file is removed only
\* when its array is in the merged file on disk, so every array is on disk
\* at every point of the run.
C27_Chi2NoLoss ==
    [][\A name \in DOMAIN mdir :
          (mdir[name].kind = "chi2" /\ name \notin DOMAIN mdir') =>
              /\ Chi2Merged(mobj) \in DOMAIN mdir'
              /\ \E i \in 1 .. Len(mdir'[Chi2Merged(mobj)].rows) :
                    mdir'[Chi2Merged(mobj)].rows[i] = mdir[name]]_vars

\* A run that completes leaves every array it removed in the merged file.
Chi2MergedHoldsAll ==
    pc = "merged" =>
        \A i \in 1 .. Len(mlist) :
           \E k \in 1 .. Len(mdir[Chi2Merged(mobj)].rows) :
              mdir[Chi2Merged(mobj)].rows[k].origin = BaseName(mlist[i])

\* the rows of the plate table are filled
FibersMerged == pc = "raised" /\ merr = "AttributeError"

\* C23: in the table merge_fibers builds, FIBERID of row i is the fiber
\* number read from the name of the per-fiber file whose values fill row i.
C23_FiberRowsMatch ==
    FibersMerged =>
        \A i \in 1 .. Len(mrows) :
           <<mids[i]>> = FiberOf(mrows[i].origin)

\* The rows match for a plate of four digits and a date of five.
FiberRowsMatchFourDigits ==
    (FibersMerged /\ Len(mobj.plate) = 4) =>
        \A i \in 1 .. Len(mrows) :
           <<mids[i]>> = FiberOf(mrows[i].origin)

-----------------------------------------------------------------------------
(* Calls in progress at once *)

\* what read_ndArch(name) returns when it runs alone
Alone(name) ==
    read_ndArch(name, IF name \in DOMAIN archives THEN <<archives[name]>> ELSE <<>>)

\* C22: whatever the interleaving of the read_ndArch calls on distinct
\* archives, every call returns the (data, baselines, infodict), or raises
\* the error, of the same call run alone.
C22_CallsIndependent ==
    pc = "calls" =>
        \A t \in 1 .. NCalls :
           threads[t].pc = "done" => threads[t].result = Alone(threads[t].arg)

\* two calls returned different archives, each after steps of the other were
\* made in its midst
C22_Witness ==
    /\ pc = "calls"
    /\ \E t, u \in 1 .. NCalls :
          /\ t # u
          /\ threads[t].pc = "done" /\ threads[u].pc = "done"
          /\ threads[t].mixed /\ threads[u].mixed
          /\ threads[t].result.error = "none"
          /\ threads[u].result.error = "none"
          /\ Len(threads[t].result.value[1].baselines) = 2
          /\ threads[t].result.value[1].infodict.par_axistype = <<"labeled", "named">>
          /\ threads[u].result.value[1].infodict.par_axistype = <<"regular">>

====
